---- MODULE Spec2Model ----
(***************************************************************************)
(* A model of lib/copydir.c: copy_tree() and the functions below it.       *)
(*                                                                         *)
(* Strings are sequences of one-character strings, so that strlen, the     *)
(* prefix test and the "%s%s" / "%s/%s" concatenations are computed on     *)
(* characters, as in the C code.  The file system is one name space        *)
(* (dirent: path -> inode id, inode: inode id -> attributes) that holds    *)
(* the source trees and the destinations.  The recursion                   *)
(* copy_tree_impl -> copy_entry -> copy_dir -> copy_tree_impl is kept as   *)
(* an explicit stack of directory frames.                                  *)
(***************************************************************************)
EXTENDS Integers, Sequences, FiniteSets, TLC

VARIABLES
    dirent,     \* path -> inode id: the directory entries that exist
    inode,      \* inode id -> attributes (struct stat, content, ACL, xattr)
    links,      \* static struct link_name *links: the hardlink registry
    src_orig,   \* static const char *src_orig
    dst_orig,   \* static const char *dst_orig
    fscreate,   \* the SELinux file-creation context of the process
    stack,      \* the active copy_tree_impl frames, innermost last
    ret,        \* what the last copy_tree call returned
    faults,     \* number of failures the environment has injected
    args,       \* reset_selinux, old_uid, new_uid, old_gid, new_gid
    call,       \* the arguments src_root, dst_root, copy_root of the call
    made,       \* history: destination path -> how the walk created it
    seen,       \* history: source inodes probed so far in this call
    skipped,    \* history: source paths whose probe failed in this call
    start,      \* history: what held when the current call started
    calls,      \* number of copy_tree calls made
    rev,        \* the order in which readdir gives the entries
    rin,        \* inputs of the ownership remap under test
    rout,       \* its result
    fds,        \* the descriptors the walk has opened and not closed
    peak,       \* the most descriptors open at one moment of the last step
    nosup,      \* what the destination file system does not support
    ops         \* the calls made while another process renames directories

vars == <<dirent, inode, links, src_orig, dst_orig, fscreate, stack, ret,
          faults, args, call, made, seen, skipped, start, calls, rev, rin,
          rout, fds, peak, ops, nosup>>

\* ------------------------------------------------------------------ bounds

\* How many system calls the environment may make fail in one behaviour.
MaxFaults == 1

\* How many times the process calls copy_tree.
MaxCalls == 2

\* ------------------------------------------------------------- C constants

\* The unsigned types (unsigned int, nlink_t) have 32 or 64 bits in the
\* build; UintBits of them are kept here: 0 - 1 wraps to the largest value
\* all the same.
UintBits == 16
UintWrap == 2 ^ UintBits

\* (uid_t) -1 and (gid_t) -1: "do not change" / "match any owner".
UNSET == -1

\* The creation modes of mkdirat (0700) and openat (0600), and 07777.
MODE_0700 == 448
MODE_0600 == 384
MODE_07777 == 4095

NULL == <<"NULL">>

\* ------------------------------------------------------------------ strings

\* strprefix(s, prefix)
strprefix(s, prefix) ==
    /\ Len(prefix) <= Len(s)
    /\ SubSeq(s, 1, Len(prefix)) = prefix

\* s + n: the string that starts n characters into s
StrFrom(s, n) == SubSeq(s, n + 1, Len(s))

\* aprintf("%s/%s", dir, name)
PathJoin(dir, name) == dir \o <<"/">> \o name

\* The directory part of a path built by PathJoin.
RECURSIVE LastSlash(_, _)
LastSlash(p, i) ==
    IF i = 0 THEN 0 ELSE IF p[i] = "/" THEN i ELSE LastSlash(p, i - 1)

Parent(p) == SubSeq(p, 1, LastSlash(p, Len(p)) - 1)
BaseName(p) == StrFrom(p, LastSlash(p, Len(p)))

\* ------------------------------------------------------------ file system

\* The file type bits of st_mode (S_IFMT) and the permission bits.
S_IFIFO == 4096
S_IFDIR == 16384
S_IFREG == 32768
S_IFLNK == 40960

Perm(mode) == mode % (MODE_07777 + 1)          \* mode & 07777
TypeBits(mode) == mode - Perm(mode)            \* mode & ~07777U
S_ISDIR(mode) == TypeBits(mode) = S_IFDIR
S_ISLNK(mode) == TypeBits(mode) = S_IFLNK
S_ISREG(mode) == TypeBits(mode) = S_IFREG

\* Paths and names of the modelled world.
P_s == <<"/", "s">>
P_d == <<"/", "d">>
P_e == <<"/", "e">>
P_f == <<"/", "f">>
P_g == <<"/", "g">>
P_h == <<"/", "h">>
P_n == <<"/", "n">>
P_x == <<"/", "x">>
N_a == <<"a">>
N_b == <<"b">>
N_k == <<"k">>
N_l == <<"l">>
N_m == <<"m">>
P_sa == PathJoin(P_s, N_a)
P_sk == PathJoin(P_s, N_k)

\* The file-creation context after reset_selinux_file_context().
DefaultContext == [path |-> <<>>, type |-> 0]

Node(mode, nlink, uid, gid, target, mt, data, acl, xattr) ==
    [mode |-> mode, nlink |-> nlink, uid |-> uid, gid |-> gid,
     target |-> target, mt |-> mt, data |-> data, acl |-> acl,
     xattr |-> xattr, label |-> DefaultContext, log |-> <<>>]

\* The skeleton: /s holds a, b (one regular set-uid file with three links,
\* the third is k/b), the directory k (mode 0555) with the fifo k/a and the
\* symlink k/l, and m, a second link to the symlink's inode.  An inode id is
\* the path of the inode's first name.
SrcDirents ==
    (P_s :> P_s) @@ (P_sa :> P_sa) @@ (PathJoin(P_s, N_b) :> P_sa)
    @@ (P_sk :> P_sk) @@ (PathJoin(P_sk, N_b) :> P_sa)
    @@ (PathJoin(P_sk, N_a) :> PathJoin(P_sk, N_a))
    @@ (PathJoin(P_sk, N_l) :> PathJoin(P_sk, N_l))
    @@ (PathJoin(P_s, N_m) :> PathJoin(P_sk, N_l))

SrcInodes ==
    (P_s :> Node(S_IFDIR + 493, 3, 0, 0, <<>>, "t_s", <<>>, "acl_s", "x_s"))
    @@ (P_sa :> Node(S_IFREG + 2541, 3, 1000, 1000, <<>>, "t_a",
                     <<"A">>, "acl_a", "x_a"))
    @@ (P_sk :> Node(S_IFDIR + 365, 2, 1000, 100, <<>>, "t_k", <<>>,
                     "acl_k", "x_k"))
    @@ (PathJoin(P_sk, N_a) :> Node(S_IFIFO + 420, 1, 0, 0, <<>>, "t_f",
                                    <<>>, "acl_f", "x_f"))
    @@ (PathJoin(P_sk, N_l) :> Node(S_IFLNK + 511, 2, 1000, 1000, P_sa,
                                    "t_l", <<>>, "", ""))

\* Outside the skeleton: the directory /d, the regular file /f, the dangling
\* symlink /g -> /x and the symlink /h -> /d.  /e and /n do not exist.
TopDirents == (P_d :> P_d) @@ (P_f :> P_f) @@ (P_g :> P_g) @@ (P_h :> P_h)

TopInodes ==
    (P_d :> Node(S_IFDIR + 493, 2, 0, 0, <<>>, "t_d", <<>>, "", ""))
    @@ (P_f :> Node(S_IFREG + 420, 1, 7, 7, <<>>, "t_o", <<"F">>, "", ""))
    @@ (P_g :> Node(S_IFLNK + 511, 1, 7, 7, P_x, "t_o", <<>>, "", ""))
    @@ (P_h :> Node(S_IFLNK + 511, 1, 7, 7, P_d, "t_o", <<>>, "", ""))

\* What /d may hold before the first call: nothing; or entries of other
\* types under the names the skeleton uses (a: dangling symlink,
\* b: directory, k: regular file).
PrePopDirents ==
    (PathJoin(P_d, N_a) :> PathJoin(P_d, N_a))
    @@ (PathJoin(P_d, N_b) :> PathJoin(P_d, N_b))
    @@ (PathJoin(P_d, N_k) :> PathJoin(P_d, N_k))

PrePopInodes ==
    (PathJoin(P_d, N_a) :> Node(S_IFLNK + 511, 1, 7, 7, P_x, "t_o", <<>>, "", ""))
    @@ (PathJoin(P_d, N_b) :> Node(S_IFDIR + 448, 2, 7, 7, <<>>, "t_o", <<>>, "", ""))
    @@ (PathJoin(P_d, N_k) :> Node(S_IFREG + 384, 1, 7, 7, <<>>, "t_o", <<"K">>, "", ""))

\* Or /d holds the directory k already, with attributes of its own.
MergeDirents == (PathJoin(P_d, N_k) :> PathJoin(P_d, N_k))

MergeInodes ==
    (PathJoin(P_d, N_k) :> Node(S_IFDIR + 448, 2, 7, 7, <<>>, "t_o", <<>>,
                                "acl_o", "x_o"))

\* The worlds a behaviour may start in.
Worlds ==
    {[dirent |-> SrcDirents @@ TopDirents, inode |-> SrcInodes @@ TopInodes],
     [dirent |-> SrcDirents @@ TopDirents @@ PrePopDirents,
      inode |-> SrcInodes @@ TopInodes @@ PrePopInodes],
     [dirent |-> SrcDirents @@ TopDirents @@ MergeDirents,
      inode |-> SrcInodes @@ TopInodes @@ MergeInodes]}

\* fstatat(..., AT_SYMLINK_NOFOLLOW) == 0
Exists(S, p) == p \in DOMAIN S.dirent

\* The struct stat fstatat(..., AT_SYMLINK_NOFOLLOW) fills in.
Stat(S, p) ==
    [S.inode[S.dirent[p]] EXCEPT !.log = <<>>]
    @@ [dev |-> "dev0", ino |-> S.dirent[p]]

\* fstatat(..., 0) == 0: the path resolves, following a final symlink.
RECURSIVE FollowExists(_, _, _)
FollowExists(S, p, depth) ==
    /\ Exists(S, p)
    /\ \/ ~S_ISLNK(S.inode[S.dirent[p]].mode)
       \/ /\ depth > 0
          /\ FollowExists(S, S.inode[S.dirent[p]].target, depth - 1)

\* readdir without "." and "..": the names of the entries of directory p
Children(S, p) ==
    {BaseName(q) : q \in {r \in DOMAIN S.dirent : Len(r) > Len(p) /\ Parent(r) = p}}

\* The order readdir gives the names in: the file system's, one of two here.
NameOrder == <<N_a, N_b, N_k, N_l, N_m>>
Reverse(q) == [i \in 1 .. Len(q) |-> q[Len(q) + 1 - i]]
InDir(n, S, p) == PathJoin(p, n) \in DOMAIN S.dirent
ReadDir(S, p, rv) ==
    LET InP(n) == InDir(n, S, p)
    IN  SelectSeq(IF rv THEN Reverse(NameOrder) ELSE NameOrder, InP)

\* ------------------------------------------------------- ownership remap

\* chownat_if_needed without the test for old_uid == -1.
chownat_nowildcard(st_uid, st_gid, old_uid, new_uid, old_gid, new_gid) ==
    LET tmpuid == IF st_uid = old_uid THEN new_uid ELSE UNSET
        tmpgid == IF (UNSET = old_gid) \/ (st_gid = old_gid)
                  THEN new_gid ELSE UNSET
    IN  [uid |-> IF UNSET = tmpuid THEN st_uid ELSE tmpuid,
         gid |-> IF UNSET = tmpgid THEN st_gid ELSE tmpgid]

\* chownat_if_needed: the (uid, gid) it passes to fchownat
chownat_if_needed(st_uid, st_gid, old_uid, new_uid, old_gid, new_gid) ==
    LET tmpuid == IF (UNSET = old_uid) \/ (st_uid = old_uid)
                  THEN new_uid ELSE UNSET
        tmpgid == IF (UNSET = old_gid) \/ (st_gid = old_gid)
                  THEN new_gid ELSE UNSET
    IN  [uid |-> IF UNSET = tmpuid THEN st_uid ELSE tmpuid,
         gid |-> IF UNSET = tmpgid THEN st_gid ELSE tmpgid]

\* fchown_if_needed that maps the owner and keeps the group of the source.
fchown_keepgroup(st_uid, st_gid, old_uid, new_uid, old_gid, new_gid) ==
    LET tmpuid == IF (UNSET = old_uid) \/ (st_uid = old_uid)
                  THEN new_uid ELSE UNSET
    IN  [uid |-> IF UNSET = tmpuid THEN st_uid ELSE tmpuid,
         gid |-> st_gid]

\* def_chown_if_needed (fchown, int): the (uid, gid) it passes to fchown
fchown_if_needed(st_uid, st_gid, old_uid, new_uid, old_gid, new_gid) ==
    LET tmpuid == IF (UNSET = old_uid) \/ (st_uid = old_uid)
                  THEN new_uid ELSE UNSET
        tmpgid == IF (UNSET = old_gid) \/ (st_gid = old_gid)
                  THEN new_gid ELSE UNSET
    IN  [uid |-> IF UNSET = tmpuid THEN st_uid ELSE tmpuid,
         gid |-> IF UNSET = tmpgid THEN st_gid ELSE tmpgid]

\* ------------------------------------------------------ hardlink registry

\* The index of the first registry entry with the key of sb, 0 when none:
\* the loop of check_link.
RECURSIVE FindLink(_, _, _)
FindLink(ls, sb, i) ==
    IF i > Len(ls) THEN 0
    ELSE IF (ls[i].ln_dev = sb.dev) /\ (ls[i].ln_ino = sb.ino) THEN i
    ELSE FindLink(ls, sb, i + 1)

\* xaprintf("%s%s", dst_orig, name + strlen(src_orig))
Rebase(name, so, do) == do \o StrFrom(name, Len(so))

\* check_link without the registration of a first link.
check_link_noreg(ls, name, sb, so, do) ==
    [lp |-> FindLink(ls, sb, 1), links |-> ls]

\* check_link: lp is the entry found (0 for NULL), links the list afterwards
check_link(ls, name, sb, so, do) ==
    LET lp == FindLink(ls, sb, 1)
    IN  IF lp # 0 THEN [lp |-> lp, links |-> ls]
        ELSE IF sb.nlink = 1 THEN [lp |-> 0, links |-> ls]
        ELSE [lp |-> 0,
              links |-> <<[ln_dev |-> sb.dev, ln_ino |-> sb.ino,
                           ln_count |-> sb.nlink,
                           ln_name |-> Rebase(name, so, do)]>> \o ls]

\* remove_link that takes the first entry of the list.
remove_link_head(ls, lp) == Tail(ls)

\* remove_link: the list without its entry lp
remove_link(ls, lp) == SubSeq(ls, 1, lp - 1) \o SubSeq(ls, lp + 1, Len(ls))

\* The tail of copy_hardlink: lp->ln_count-- in the unsigned nlink_t,
\* remove_link when it is <= 0
release_link(ls, lp) ==
    LET dec == [ls EXCEPT ![lp].ln_count = (@ + UintWrap - 1) % UintWrap]
    IN  IF dec[lp].ln_count <= 0 THEN remove_link(dec, lp) ELSE dec

\* ------------------------------------------------------------ system calls

\* A walk works on S = [dirent, inode, links, fscreate, made, fds, peak].  A step is one
\* fallible call of a strategy; Step gives the state after it and whether it
\* failed for a reason the file system itself gives (EEXIST, ENOENT, EPERM).
\* c is the call's context: the source and destination paths, the struct
\* stat of the source (st), the copy_tree arguments (a), the strategy (by),
\* the file type handed to set_selinux_file_context (seltype) and, for a
\* symlink, the target to create (target).
Ok(S) == [S |-> S, err |-> 0]
Fail(S) == [S |-> S, err |-> -1]

\* openat and close: a descriptor is the variable that holds it and the path
\* it was opened for.
Fd(var, path) == [fd |-> var, path |-> path]

Open(S, d) ==
    [S EXCEPT !.fds = @ \cup {d},
              !.peak = IF Cardinality(S.fds \cup {d}) > @
                       THEN Cardinality(S.fds \cup {d}) ELSE @]

Close(S, d) == [S EXCEPT !.fds = @ \ {d}]

\* perm_copy_path and attr_copy_path: both entries are opened, the attributes
\* copied from descriptor to descriptor, and both descriptors closed.
ViaDescriptors(S, c) ==
    LET both == Open(Open(S, Fd("src_fd", c.src)), Fd("dst_fd", c.dst))
    IN  Close(Close(both, Fd("src_fd", c.src)), Fd("dst_fd", c.dst))

\* The descriptors of an attribute copy: copy_file has the two files open
\* (perm_copy_fd, attr_copy_fd), the other strategies open them.
AttrCopy(S, c) == IF c.by = "file" THEN S ELSE ViaDescriptors(S, c)

\* The two openat calls of copy_tree_impl (lines 283-292).
OpenDirs(S, c) ==
    IF ~(Exists(S, c.src) /\ S_ISDIR(S.inode[S.dirent[c.src]].mode))
    THEN [S |-> S, err |-> -1]
    ELSE IF ~(Exists(S, c.dst) /\ S_ISDIR(S.inode[S.dirent[c.dst]].mode))
    THEN [S |-> Close(Open(S, Fd("src_fd", c.src)), Fd("src_fd", c.src)),
          err |-> -1]
    ELSE [S |-> Open(Open(S, Fd("src_fd", c.src)), Fd("dst_fd", c.dst)),
          err |-> 0]

\* A new entry c.dst with a new inode, owned by the process (root); the
\* directory that receives the entry gets a new modification time.
Create(S, c, mode, nlink, target, op) ==
    LET par == Parent(c.dst)
        node == [mode |-> mode, nlink |-> nlink, uid |-> 0, gid |-> 0,
                 target |-> target, mt |-> "now", data |-> <<>>,
                 acl |-> "", xattr |-> "", label |-> S.fscreate,
                 log |-> <<op>>]
        touched == IF par \in DOMAIN S.dirent
                   THEN [S.inode EXCEPT ![S.dirent[par]].mt = "now"]
                   ELSE S.inode
    IN  [S EXCEPT !.dirent = (c.dst :> c.dst) @@ S.dirent,
                  !.inode = (c.dst :> node) @@ touched,
                  !.made = (c.dst :> [by |-> c.by, sino |-> c.st.ino,
                                      smode |-> c.st.mode, cur |-> TRUE,
                                      first |-> c.first]) @@ S.made]

\* An attribute change of the inode of c.dst.
SetAttr(S, c, op, new) ==
    [S EXCEPT !.inode[S.dirent[c.dst]] = [new EXCEPT !.log = Append(@, op)]]

DstNode(S, c) == S.inode[S.dirent[c.dst]]

\* mknodat with the whole st_mode of the source.
MknodStep_withperm(S, c) ==
    IF Exists(S, c.dst) \/ TypeBits(c.st.mode) \notin {S_IFIFO, S_IFREG}
    THEN Fail(S)
    ELSE Ok(Create(S, c, c.st.mode, 1, <<>>, "mknod"))

\* mknodat: only fifos, devices, sockets and regular files can be made.
MknodStep(S, c) ==
    IF Exists(S, c.dst) \/ TypeBits(c.st.mode) \notin {S_IFIFO, S_IFREG}
    THEN Fail(S)
    ELSE Ok(Create(S, c, TypeBits(c.st.mode), 1, <<>>, "mknod"))

\* The copy of the ACL or of the extended attributes that fails when the
\* destination file system does not support them.
AttrStep_fatal(S, c, name, new) ==
    IF name \in S.nosup THEN Fail(AttrCopy(S, c))
    ELSE Ok(SetAttr(AttrCopy(S, c), c, name, new))

\* perm_copy_path / perm_copy_fd and attr_copy_path / attr_copy_fd with
\* error_acl: when the destination file system does not support the
\* attributes (ENOTSUP), error_acl sets errno to 0, nothing is copied and the
\* strategy, which tests "!= 0 && errno != 0", goes on.
AttrStep(S, c, name, new) ==
    Ok(SetAttr(AttrCopy(S, c), c, name,
               IF name \in S.nosup THEN DstNode(S, c) ELSE new))

Step(S, name, c) ==
    CASE name = "selinux" ->
            Ok([S EXCEPT !.fscreate = [path |-> c.dst, type |-> c.seltype]])
      [] name = "mkdir" ->
            IF Exists(S, c.dst) THEN Fail(S)
            ELSE Ok(Create(S, c, S_IFDIR + MODE_0700, 2, <<>>, "mkdir"))
      [] name = "symlink" ->
            IF Exists(S, c.dst) THEN Fail(S)
            ELSE Ok(Create(S, c, S_IFLNK + 511, 1, c.target, "symlink"))
      [] name = "mknod" -> MknodStep(S, c)
      [] name = "open_dst" ->
            IF Exists(S, c.dst) THEN Fail(S)
            ELSE Ok(Open(Create(S, c, S_IFREG + MODE_0600, 1, <<>>, "open_dst"),
                         Fd("ofd", c.dst)))
      [] name = "chown" ->
            LET o == chownat_if_needed(c.st.uid, c.st.gid, c.a.old_uid,
                                       c.a.new_uid, c.a.old_gid, c.a.new_gid)
            IN  Ok(SetAttr(S, c, "chown",
                           [DstNode(S, c) EXCEPT !.uid = o.uid, !.gid = o.gid]))
      [] name = "fchown" ->
            LET o == fchown_if_needed(c.st.uid, c.st.gid, c.a.old_uid,
                                      c.a.new_uid, c.a.old_gid, c.a.new_gid)
            IN  Ok(SetAttr(S, c, "chown",
                           [DstNode(S, c) EXCEPT !.uid = o.uid, !.gid = o.gid]))
      [] name = "chmod" ->
            Ok(SetAttr(S, c, "chmod",
                       [DstNode(S, c) EXCEPT
                            !.mode = TypeBits(@) + Perm(c.st.mode)]))
      [] name = "acl" ->
            AttrStep(S, c, "acl", [DstNode(S, c) EXCEPT !.acl = c.st.acl])
      [] name = "xattr" ->
            AttrStep(S, c, "xattr",
                     [DstNode(S, c) EXCEPT !.xattr = c.st.xattr])
      [] name = "copy" ->
            \* write_full: the content, and the file system sets the
            \* modification time
            Ok(SetAttr(S, c, "copy", [DstNode(S, c) EXCEPT !.data = c.st.data,
                                                           !.mt = "now"]))
      [] name = "utimens" ->
            Ok(SetAttr(S, c, "utimens", [DstNode(S, c) EXCEPT !.mt = c.st.mt]))
      [] name = "opendir" -> OpenDirs(S, c)
      [] name = "open_src" -> Ok(Open(S, Fd("ifd", c.src)))
      [] name = "close" ->
            Ok(Close(Close(S, Fd("ifd", c.src)), Fd("ofd", c.dst)))
      [] OTHER -> Ok(S)     \* readlink: no effect when it succeeds

\* The steps from the i-th on, in order, until one fails; the environment
\* makes step f fail (0: none).  hit: the injected failure was reached;
\* at: the step that failed (0: none).
RECURSIVE RunSteps(_, _, _, _, _)
RunSteps(S, steps, i, f, c) ==
    IF i > Len(steps) THEN [S |-> S, err |-> 0, hit |-> FALSE, at |-> 0]
    ELSE IF i = f THEN [S |-> S, err |-> -1, hit |-> TRUE, at |-> i]
    ELSE LET After(r) ==
                 IF r.err # 0
                 THEN [S |-> r.S, err |-> -1, hit |-> FALSE, at |-> i]
                 ELSE RunSteps(r.S, steps, i + 1, f, c)
         IN  \* the step is evaluated once, whatever follows it
             CHOOSE x \in {After(r) : r \in {Step(S, steps[i], c)}} : TRUE

\* -------------------------------------------------------------- strategies

\* The fallible calls of each strategy, in the order of the code.
\* The extended attributes copied whatever reset_selinux is.
XattrStep_always(reset_selinux) == <<"xattr">>

XattrStep(reset_selinux) == IF reset_selinux THEN <<>> ELSE <<"xattr">>

\* copy_dir that sets the mode before the owner.
DirSteps_chmodfirst(reset_selinux) ==
    <<"mkdir", "chmod", "chown", "acl">> \o XattrStep(reset_selinux)
    \o <<"opendir">>

DirSteps(reset_selinux) ==
    <<"mkdir", "chown", "chmod", "acl">> \o XattrStep(reset_selinux)
    \o <<"opendir">>

\* copy_symlink that sets the context after it created the link.
SymlinkSteps_createfirst ==
    <<"readlink", "symlink", "selinux", "chown", "utimens">>

SymlinkSteps == <<"readlink", "selinux", "symlink", "chown", "utimens">>

SpecialSteps(reset_selinux) ==
    <<"selinux", "mknod", "chown", "chmod", "acl">>
    \o XattrStep(reset_selinux) \o <<"utimens">>

\* copy_file that sets the times before it writes the content.
FileSteps_timesfirst(reset_selinux) ==
    <<"open_src", "selinux", "open_dst", "fchown", "chmod", "acl">>
    \o XattrStep(reset_selinux) \o <<"utimens", "copy", "close">>

FileSteps(reset_selinux) ==
    <<"open_src", "selinux", "open_dst", "fchown", "chmod", "acl">>
    \o XattrStep(reset_selinux) \o <<"copy", "close", "utimens">>

NoFrame == [src |-> <<>>, dst |-> <<>>, todo |-> <<>>, set_orig |-> FALSE,
            err |-> 0, kind |-> "none", mt |-> ""]

\* What copy_entry comes to: it returned err ("ret"), it is inside the
\* copy_tree_impl that copy_dir called ("enter", with that frame), or an
\* assert failed ("abort").
Ret(S, err, hit) ==
    [kind |-> "ret", S |-> S, err |-> err, hit |-> hit, frame |-> NoFrame]
Abort(S) ==
    [kind |-> "abort", S |-> S, err |-> -1, hit |-> FALSE, frame |-> NoFrame]
Enter(S, c, kind) ==
    [kind |-> "enter", S |-> S, err |-> 0, hit |-> FALSE,
     frame |-> [src |-> c.src, dst |-> c.dst, todo |-> ReadDir(S, c.src, c.rev),
                set_orig |-> FALSE, err |-> 0, kind |-> kind, mt |-> c.st.mt]]

\* The target copy_symlink creates the link with.
LinkTarget(oldlink, so, do) ==
    IF strprefix(oldlink, so) THEN do \o StrFrom(oldlink, Len(so)) ELSE oldlink

\* copy_dir that sets the owner of a destination directory it finds.
copy_dir_rechown(S, c, f) ==
    LET sel == RunSteps(S, <<"selinux">>, 1, f, c)
    IN  IF sel.err # 0 THEN Ret(sel.S, -1, sel.hit)
        ELSE IF Exists(sel.S, c.dst) /\ S_ISDIR(DstNode(sel.S, c).mode)
        THEN LET r == RunSteps(sel.S, <<"chown", "opendir">>, 1, f - 1, c)
             IN  IF r.err # 0 THEN Ret(r.S, 1, r.hit)
                 ELSE Enter(r.S, c, "merge")
        ELSE LET r == RunSteps(sel.S, DirSteps(c.a.reset_selinux), 1, f - 1, c)
             IN  IF r.err # 0 THEN Ret(r.S, -1, r.hit)
                 ELSE Enter(r.S, c, "new")

\* copy_dir that creates the directory and does not walk the source.
copy_dir_norecurse(S, c, f) ==
    LET sel == RunSteps(S, <<"selinux">>, 1, f, c)
    IN  IF sel.err # 0 THEN Ret(sel.S, -1, sel.hit)
        ELSE LET r == RunSteps(sel.S, <<"mkdir", "chown", "chmod", "acl">>
                                      \o XattrStep(c.a.reset_selinux)
                                      \o <<"utimens">>, 1, f - 1, c)
             IN  Ret(r.S, r.err, r.hit)

\* copy_dir up to its call of copy_tree_impl and that call's opening of the
\* two directories.  What follows the walk of the children is in TreeReturn.
copy_dir(S, c, f) ==
    LET sel == RunSteps(S, <<"selinux">>, 1, f, c)
    IN  IF sel.err # 0 THEN Ret(sel.S, -1, sel.hit)
        ELSE IF Exists(sel.S, c.dst) /\ S_ISDIR(DstNode(sel.S, c).mode)
        THEN LET r == RunSteps(sel.S, <<"opendir">>, 1, f - 1, c)
             IN  IF r.err # 0 THEN Ret(r.S, 1, r.hit)
                 ELSE Enter(r.S, c, "merge")
        ELSE LET r == RunSteps(sel.S, DirSteps(c.a.reset_selinux), 1, f - 1, c)
             IN  IF r.err # 0 THEN Ret(r.S, -1, r.hit)
                 ELSE Enter(r.S, c, "new")

copy_symlink(S, c, f) ==
    LET r == RunSteps(S, SymlinkSteps, 1, f, c)
    IN  Ret(r.S, r.err, r.hit)

\* linkat (AT_FDCWD, lp->ln_name, dst->dirfd, dst->name, 0), then the release
copy_hardlink(S, c, lp, f) ==
    LET name == S.links[lp].ln_name
        par == Parent(c.dst)
    IN  IF f = 1 THEN Ret(S, -1, TRUE)
        ELSE IF \/ ~Exists(S, name) \/ Exists(S, c.dst)
                \/ S_ISDIR(S.inode[S.dirent[name]].mode)
        THEN Ret(S, -1, FALSE)
        ELSE Ret([S EXCEPT
                    !.dirent = (c.dst :> S.dirent[name]) @@ S.dirent,
                    !.inode = [S.inode EXCEPT
                                 ![S.dirent[name]].nlink = @ + 1,
                                 ![S.dirent[par]].mt = "now"],
                    !.made = (c.dst :> [by |-> "hardlink", sino |-> c.st.ino,
                                        smode |-> c.st.mode, cur |-> TRUE,
                                        first |-> c.first]) @@ S.made,
                    !.links = release_link(S.links, lp)],
                 0, FALSE)

copy_special(S, c, f) ==
    LET r == RunSteps(S, SpecialSteps(c.a.reset_selinux), 1, f, c)
    IN  Ret(r.S, r.err, r.hit)

\* copy_file that leaves ifd open when set_selinux_file_context fails.
FileCleanup_leak(S, c, steps, at) ==
    IF at = 0 \/ steps[at] \in {"open_src", "selinux", "utimens"} THEN S
    ELSE Close(Close(S, Fd("ofd", c.dst)), Fd("ifd", c.src))

\* What copy_file closes on the path it leaves by when step `at` failed.
FileCleanup(S, c, steps, at) ==
    IF at = 0 THEN S
    ELSE CASE steps[at] = "open_src" -> S
           [] steps[at] = "selinux" -> Close(S, Fd("ifd", c.src))
           [] steps[at] \in {"open_dst", "fchown", "chmod", "acl", "xattr"} ->
                 Close(IF Fd("ofd", c.dst) \in S.fds
                       THEN Close(S, Fd("ofd", c.dst)) ELSE S,
                       Fd("ifd", c.src))
           [] steps[at] \in {"copy", "close"} ->
                 Close(Close(S, Fd("ofd", c.dst)), Fd("ifd", c.src))
           [] OTHER -> S

copy_file(S, c, f) ==
    LET steps == FileSteps(c.a.reset_selinux)
        r == RunSteps(S, steps, 1, f, c)
    IN  Ret(FileCleanup(r.S, c, steps, r.at), r.err, r.hit)

\* copy_entry without the probe of the destination.
copy_entry_tail_noprobe(S, c, so, do, err, f) ==
    IF so = NULL \/ do = NULL THEN Abort(S)
    ELSE IF S_ISLNK(c.st.mode)
    THEN copy_symlink(S, [c EXCEPT !.by = "symlink", !.seltype = S_IFLNK,
                                   !.target = LinkTarget(c.st.target, so, do)], f)
    ELSE LET cl == check_link(S.links, c.src, c.st, so, do)
             T == [S EXCEPT !.links = cl.links]
         IN  IF cl.lp # 0 THEN copy_hardlink(T, c, cl.lp, f)
             ELSE IF ~S_ISREG(c.st.mode)
             THEN copy_special(T, [c EXCEPT !.by = "special",
                                            !.seltype = TypeBits(c.st.mode)], f)
             ELSE copy_file(T, [c EXCEPT !.by = "file", !.seltype = S_IFREG], f)

\* copy_entry that rewrites symlinks with the paths of the directory being
\* walked in place of src_orig and dst_orig.
copy_entry_tail_curdir(S, c, so, do, err, f) ==
    IF Exists(S, c.dst) THEN Ret(S, err, FALSE)
    ELSE IF so = NULL \/ do = NULL THEN Abort(S)
    ELSE IF S_ISLNK(c.st.mode)
    THEN copy_symlink(S, [c EXCEPT !.by = "symlink", !.seltype = S_IFLNK,
                                   !.target = LinkTarget(c.st.target,
                                                         Parent(c.src),
                                                         Parent(c.dst))], f)
    ELSE LET cl == check_link(S.links, c.src, c.st, so, do)
             T == [S EXCEPT !.links = cl.links]
         IN  IF cl.lp # 0 THEN copy_hardlink(T, c, cl.lp, f)
             ELSE IF ~S_ISREG(c.st.mode)
             THEN copy_special(T, [c EXCEPT !.by = "special",
                                            !.seltype = TypeBits(c.st.mode)], f)
             ELSE copy_file(T, [c EXCEPT !.by = "file", !.seltype = S_IFREG], f)

\* copy_entry that goes to the special-file or regular-file strategy
\* without a look at the registry.
copy_entry_tail_nolink(S, c, so, do, err, f) ==
    IF Exists(S, c.dst) THEN Ret(S, err, FALSE)
    ELSE IF so = NULL \/ do = NULL THEN Abort(S)
    ELSE IF S_ISLNK(c.st.mode)
    THEN copy_symlink(S, [c EXCEPT !.by = "symlink", !.seltype = S_IFLNK,
                                   !.target = LinkTarget(c.st.target, so, do)], f)
    ELSE IF ~S_ISREG(c.st.mode)
    THEN copy_special(S, [c EXCEPT !.by = "special",
                                   !.seltype = TypeBits(c.st.mode)], f)
    ELSE copy_file(S, [c EXCEPT !.by = "file", !.seltype = S_IFREG], f)

\* copy_entry from its second fstatat on (lines 427-473); err is what
\* copy_dir returned, 0 when the source is no directory.
copy_entry_tail(S, c, so, do, err, f) ==
    IF Exists(S, c.dst) THEN Ret(S, err, FALSE)
    ELSE IF so = NULL \/ do = NULL THEN Abort(S)
    ELSE IF S_ISLNK(c.st.mode)
    THEN copy_symlink(S, [c EXCEPT !.by = "symlink", !.seltype = S_IFLNK,
                                   !.target = LinkTarget(c.st.target, so, do)], f)
    ELSE LET cl == check_link(S.links, c.src, c.st, so, do)
             T == [S EXCEPT !.links = cl.links]
         IN  IF cl.lp # 0 THEN copy_hardlink(T, c, cl.lp, f)
             ELSE IF ~S_ISREG(c.st.mode)
             THEN copy_special(T, [c EXCEPT !.by = "special",
                                            !.seltype = TypeBits(c.st.mode)], f)
             ELSE copy_file(T, [c EXCEPT !.by = "file", !.seltype = S_IFREG], f)

\* copy_entry that takes a failed probe of the source for an error.
copy_entry_probefatal(S, src, dst, a, so, do, first, rv, f) ==
    IF ~Exists(S, src) \/ f = 1 THEN Ret(S, -1, f = 1)
    ELSE LET c == [src |-> src, dst |-> dst, st |-> Stat(S, src), a |-> a,
                   by |-> "dir", seltype |-> S_IFDIR, target |-> <<>>,
                   first |-> first, rev |-> rv]
         IN  IF S_ISDIR(c.st.mode)
             THEN LET r == copy_dir(S, c, f - 1)
                  IN  IF r.kind = "enter" THEN r
                      ELSE LET t == copy_entry_tail(r.S, c, so, do, r.err, 0)
                           IN  [t EXCEPT !.hit = r.hit]
             ELSE copy_entry_tail(S, c, so, do, 0, f - 1)

\* copy_entry.  f = 1 makes the probe of the source fail; f > 1 makes call
\* f - 1 of the strategy fail.
copy_entry(S, src, dst, a, so, do, first, rv, f) ==
    IF ~Exists(S, src) \/ f = 1 THEN Ret(S, 0, f = 1)
    ELSE LET c == [src |-> src, dst |-> dst, st |-> Stat(S, src), a |-> a,
                   by |-> "dir", seltype |-> S_IFDIR, target |-> <<>>,
                   first |-> first, rev |-> rv]
         IN  IF S_ISDIR(c.st.mode)
             THEN LET r == copy_dir(S, c, f - 1)
                  IN  IF r.kind = "enter" THEN r
                      ELSE LET t == copy_entry_tail(r.S, c, so, do, r.err, 0)
                           IN  [t EXCEPT !.hit = r.hit]
             ELSE copy_entry_tail(S, c, so, do, 0, f - 1)

\* ------------------------------------------------------------------ actions

\* The state a step starts in; peak starts at what is open.
Cur == [dirent |-> dirent, inode |-> inode, links |-> links,
        fscreate |-> fscreate, made |-> made, fds |-> fds,
        peak |-> Cardinality(fds), nosup |-> nosup]

Put(S) ==
    /\ dirent' = S.dirent
    /\ inode' = S.inode
    /\ links' = S.links
    /\ fscreate' = S.fscreate
    /\ made' = S.made
    /\ fds' = S.fds
    /\ peak' = S.peak

\* What the destination file system may lack: nothing, or ACLs and extended
\* attributes.
NoSupport == {{}, {"acl", "xattr"}}

\* The calls the process may make: <<src_root, dst_root, copy_root>>.  As
\* source the skeleton, a directory of it, a file of it, a missing path; as
\* destination a directory, a missing path, a regular file, a dangling
\* symlink and a symlink to a directory.
CallChoices ==
    {<<P_s, P_d, FALSE>>, <<P_sk, P_d, FALSE>>, <<P_s, P_e, FALSE>>,
     <<P_s, P_f, FALSE>>, <<P_sa, P_d, FALSE>>,
     <<P_s, P_e, TRUE>>, <<P_s, P_d, TRUE>>, <<P_s, P_f, TRUE>>,
     <<P_s, P_g, TRUE>>, <<P_s, P_h, TRUE>>, <<P_sa, P_e, TRUE>>,
     <<P_n, P_e, TRUE>>}

\* reset_selinux and the ownership map of the caller.
ArgChoices ==
    {[reset_selinux |-> FALSE, old_uid |-> UNSET, new_uid |-> UNSET,
      old_gid |-> UNSET, new_gid |-> UNSET],
     [reset_selinux |-> TRUE, old_uid |-> 1000, new_uid |-> 2000,
      old_gid |-> UNSET, new_gid |-> 2000]}

\* Which call of an operation the environment makes fail (0: none).
FaultPoints == 0 .. (1 + Len(FileSteps(FALSE)))

Idle == [st |-> "idle", val |-> 0]
Running == [st |-> "running", val |-> 0]
Returned(v) == [st |-> "returned", val |-> v]
Aborted == [st |-> "aborted", val |-> 0]

\* The loop that goes on to the next entry whatever copy_entry returned.
AfterEntry_continue(frames, r) ==
    /\ Put(r.S)
    /\ CASE r.kind = "ret" ->
              /\ UNCHANGED <<src_orig, dst_orig>>
              /\ IF frames = <<>>
                 THEN stack' = <<>> /\ ret' = Returned(r.err)
                 ELSE stack' = frames /\ ret' = Running
         [] r.kind = "enter" ->
              /\ stack' = Append(frames,
                                 [r.frame EXCEPT !.set_orig = (src_orig = NULL)])
              /\ src_orig' = IF src_orig = NULL THEN r.frame.src ELSE src_orig
              /\ dst_orig' = IF src_orig = NULL THEN r.frame.dst ELSE dst_orig
              /\ ret' = Running
         [] r.kind = "abort" ->
              /\ UNCHANGED <<src_orig, dst_orig>>
              /\ stack' = <<>>
              /\ ret' = Aborted

\* The walk that takes its own paths for the roots whenever it starts.
AfterEntry_reroot(frames, r) ==
    /\ Put(r.S)
    /\ CASE r.kind = "ret" ->
              /\ UNCHANGED <<src_orig, dst_orig>>
              /\ IF frames = <<>>
                 THEN stack' = <<>> /\ ret' = Returned(r.err)
                 ELSE /\ stack' = [frames EXCEPT ![Len(frames)].err = r.err]
                      /\ ret' = Running
         [] r.kind = "enter" ->
              /\ stack' = Append(frames, [r.frame EXCEPT !.set_orig = TRUE])
              /\ src_orig' = r.frame.src
              /\ dst_orig' = r.frame.dst
              /\ ret' = Running
         [] r.kind = "abort" ->
              /\ UNCHANGED <<src_orig, dst_orig>>
              /\ stack' = <<>>
              /\ ret' = Aborted

\* The state after copy_entry came to r, called for an entry of the frame
\* `frames` ends with (or, when there is none, for the root by copy_tree).
AfterEntry(frames, r) ==
    /\ Put(r.S)
    /\ CASE r.kind = "ret" ->
              /\ UNCHANGED <<src_orig, dst_orig>>
              /\ IF frames = <<>>
                 THEN stack' = <<>> /\ ret' = Returned(r.err)
                 ELSE /\ stack' = [frames EXCEPT ![Len(frames)].err = r.err]
                      /\ ret' = Running
         [] r.kind = "enter" ->
              \* copy_tree_impl, lines 308-312
              /\ stack' = Append(frames,
                                 [r.frame EXCEPT !.set_orig = (src_orig = NULL)])
              /\ src_orig' = IF src_orig = NULL THEN r.frame.src ELSE src_orig
              /\ dst_orig' = IF src_orig = NULL THEN r.frame.dst ELSE dst_orig
              /\ ret' = Running
         [] r.kind = "abort" ->
              /\ UNCHANGED <<src_orig, dst_orig>>
              /\ stack' = <<>>
              /\ ret' = Aborted

Injected(f, hit) ==
    /\ f = 0 \/ hit
    /\ faults' = IF f = 0 THEN faults ELSE faults + 1

CanInject(f) == f = 0 \/ faults < MaxFaults

\* The checks of copy_root without the one of the destination.
RootRefused_nodst(S, sr, dr) ==
    \/ ~Exists(S, sr)
    \/ ~S_ISDIR(S.inode[S.dirent[sr]].mode)

\* The checks copy_tree_impl makes first when copy_root is set (lines
\* 254-271): TRUE when it returns -1 there.
RootRefused(S, sr, dr) ==
    \/ FollowExists(S, dr, 2)
    \/ ~Exists(S, sr)
    \/ ~S_ISDIR(S.inode[S.dirent[sr]].mode)

\* copy_tree (src_root, dst_root, copy_root, ...), up to the first entry.
CopyTree(sr, dr, cr, f) ==
    /\ stack = <<>>
    /\ ret.st # "aborted"
    /\ calls < MaxCalls
    /\ CanInject(f)
    /\ calls' = calls + 1
    /\ call' = [src |-> sr, dst |-> dr, copy_root |-> cr]
    /\ start' = [links |-> links, children |-> Children(Cur, dr)]
    /\ UNCHANGED <<args, rev, rin, rout, ops, nosup>>
    /\ LET S0 == [Cur EXCEPT !.made = [p \in DOMAIN made |->
                                          [made[p] EXCEPT !.cur = FALSE]]]
       IN  IF cr
           THEN IF RootRefused(S0, sr, dr)
                THEN /\ f = 0
                     /\ Put(S0)
                     /\ ret' = Returned(-1)
                     /\ seen' = {} /\ skipped' = {}
                     /\ UNCHANGED <<stack, src_orig, dst_orig, faults>>
                ELSE \E r \in {copy_entry(S0, sr, dr, args, src_orig, dst_orig,
                                          TRUE, rev, f)} :
                         /\ Injected(f, r.hit)
                         /\ AfterEntry(<<>>, r)
                         /\ seen' = IF f = 1 THEN {} ELSE {S0.dirent[sr]}
                         /\ skipped' = IF f = 1 THEN {sr} ELSE {}
           ELSE \E c \in {[src |-> sr, dst |-> dr, st |-> [mt |-> ""],
                           rev |-> rev]} :
                \E r \in {RunSteps(S0, <<"opendir">>, 1, f, c)} :
                    /\ Injected(f, r.hit)
                    /\ seen' = {} /\ skipped' = {}
                    /\ IF r.err # 0
                       THEN /\ Put(r.S)
                            /\ ret' = Returned(-1)
                            /\ UNCHANGED <<stack, src_orig, dst_orig>>
                       ELSE AfterEntry(<<>>, Enter(r.S, c, "top"))

\* One round of the loop of copy_tree_impl: readdir gives the next entry and
\* copy_entry is called for it.
CopyEntry(f) ==
    /\ stack # <<>>
    /\ stack[Len(stack)].err = 0
    /\ stack[Len(stack)].todo # <<>>
    /\ CanInject(f)
    /\ LET top == stack[Len(stack)]
           n == Head(top.todo)
           src == PathJoin(top.src, n)
           dst == PathJoin(top.dst, n)
       IN  \E r \in {copy_entry(Cur, src, dst, args, src_orig, dst_orig,
                                dirent[src] \notin seen, rev, f)} :
               /\ Injected(f, r.hit)
               /\ AfterEntry([stack EXCEPT ![Len(stack)].todo = Tail(@)], r)
               /\ seen' = IF f = 1 THEN seen ELSE seen \cup {dirent[src]}
               /\ skipped' = IF f = 1 THEN skipped \cup {src} ELSE skipped
    /\ UNCHANGED <<args, call, start, calls, rev, rin, rout, ops,
                   nosup>>

\* The end of copy_tree_impl (lines 352-378) once readdir gave NULL or err is
\* set, and what its caller then does: copy_tree returns, or copy_dir sets
\* the times of the directory (lines 536-540) and copy_entry finds the
\* destination to exist and returns (lines 431-433).  f = 1 makes
\* reset_selinux_file_context fail, f = 2 makes utimensat fail.
TreeReturn(f) ==
    /\ stack # <<>>
    /\ CanInject(f)
    /\ LET top == stack[Len(stack)]
           rest == SubSeq(stack, 1, Len(stack) - 1)
           err == IF f = 1 THEN -1 ELSE top.err
           times == top.kind = "new" /\ err = 0
           \* closedir (dir), close (dst_fd)
           S0 == Close(Close(Cur, Fd("src_fd", top.src)), Fd("dst_fd", top.dst))
           S1 == [S0 EXCEPT !.fscreate = IF f = 1 THEN @ ELSE DefaultContext]
           S2 == IF times /\ f # 2
                 THEN Step(S1, "utimens", [dst |-> top.dst, st |-> [mt |-> top.mt]]).S
                 ELSE S1
           res == CASE top.kind = "top" -> err
                    [] top.kind = "merge" -> IF err # 0 THEN 1 ELSE 0
                    [] top.kind = "new" -> IF err # 0 \/ f = 2 THEN -1 ELSE 0
       IN  /\ top.err # 0 \/ top.todo = <<>>
           /\ f \in {0, 1} \/ (f = 2 /\ times)
           /\ Injected(f, TRUE)
           /\ Put(S2)
           /\ src_orig' = IF top.set_orig THEN NULL ELSE src_orig
           /\ dst_orig' = IF top.set_orig THEN NULL ELSE dst_orig
           /\ IF rest = <<>>
              THEN stack' = <<>> /\ ret' = Returned(res)
              ELSE /\ stack' = [rest EXCEPT ![Len(rest)].err = res]
                   /\ ret' = ret
    /\ UNCHANGED <<args, call, start, seen, skipped, calls, rev, rin, rout,
                   ops, nosup>>

Init ==
    /\ \E w \in Worlds : dirent = w.dirent /\ inode = w.inode
    /\ links = <<>>
    /\ src_orig = NULL
    /\ dst_orig = NULL
    /\ fscreate = DefaultContext
    /\ stack = <<>>
    /\ ret = Idle
    /\ faults = 0
    /\ args \in ArgChoices
    /\ call = [src |-> <<>>, dst |-> <<>>, copy_root |-> FALSE]
    /\ made = <<>>
    /\ seen = {}
    /\ skipped = {}
    /\ start = [links |-> <<>>, children |-> {}]
    /\ calls = 0
    /\ rev \in BOOLEAN
    /\ rin = <<>>
    /\ rout = <<>>
    /\ fds = {}
    /\ peak = 0
    /\ ops = <<>>
    /\ nosup \in NoSupport

Next ==
    \/ \E ch \in CallChoices, f \in FaultPoints :
          CopyTree(ch[1], ch[2], ch[3], f)
    \/ \E f \in FaultPoints : CopyEntry(f)
    \/ \E f \in FaultPoints : TreeReturn(f)

Spec == Init /\ [][Next]_vars

\* ---------------------------------------------- the remap functions alone

\* The owners and the uid_t / gid_t arguments the two functions are applied
\* to: (uid_t) -1 among the arguments, never as the owner of a file.
Owners == {0, 1000, 2000}
OwnerArgs == Owners \cup {UNSET}

NoRemap == [fn |-> "", uid |-> 0, gid |-> 0]

InitRemap ==
    /\ dirent = SrcDirents @@ TopDirents
    /\ inode = SrcInodes @@ TopInodes
    /\ links = <<>>
    /\ src_orig = NULL
    /\ dst_orig = NULL
    /\ fscreate = DefaultContext
    /\ stack = <<>>
    /\ ret = Idle
    /\ faults = 0
    /\ args = [reset_selinux |-> FALSE, old_uid |-> UNSET, new_uid |-> UNSET,
               old_gid |-> UNSET, new_gid |-> UNSET]
    /\ call = [src |-> <<>>, dst |-> <<>>, copy_root |-> FALSE]
    /\ made = <<>>
    /\ seen = {}
    /\ skipped = {}
    /\ start = [links |-> <<>>, children |-> {}]
    /\ calls = 0
    /\ rev = FALSE
    /\ rin \in [st_uid : Owners, st_gid : Owners, old_uid : OwnerArgs,
                new_uid : OwnerArgs, old_gid : OwnerArgs, new_gid : OwnerArgs]
    /\ rout = NoRemap
    /\ fds = {}
    /\ peak = 0
    /\ ops = <<>>
    /\ nosup = {}

RemapFrame ==
    UNCHANGED <<dirent, inode, links, src_orig, dst_orig, fscreate, stack, ret,
                faults, args, call, made, seen, skipped, start, calls, rev, rin,
                fds, peak, ops, nosup>>

\* chownat_if_needed (dst, statp, old_uid, new_uid, old_gid, new_gid)
ChownAt ==
    /\ rout = NoRemap
    /\ LET o == chownat_if_needed(rin.st_uid, rin.st_gid, rin.old_uid,
                                  rin.new_uid, rin.old_gid, rin.new_gid)
       IN  rout' = [fn |-> "fchownat", uid |-> o.uid, gid |-> o.gid]
    /\ RemapFrame

\* fchown_if_needed (ofd, statp, old_uid, new_uid, old_gid, new_gid)
FChown ==
    /\ rout = NoRemap
    /\ LET o == fchown_if_needed(rin.st_uid, rin.st_gid, rin.old_uid,
                                 rin.new_uid, rin.old_gid, rin.new_gid)
       IN  rout' = [fn |-> "fchown", uid |-> o.uid, gid |-> o.gid]
    /\ RemapFrame

NextRemap == ChownAt \/ FChown

SpecRemap == InitRemap /\ [][NextRemap]_vars

\* ------------------------------------------------------ check_link alone

\* The link counts (st_nlink is unsigned: 0 is its least value), the inodes
\* and the registries check_link is applied to.
MaxNlink == 3

LinkEntry(dev, ino, count, name) ==
    [ln_dev |-> dev, ln_ino |-> ino, ln_count |-> count, ln_name |-> name]

Registries ==
    {<<>>,
     <<LinkEntry("dev0", "i1", 2, PathJoin(P_d, N_a))>>,
     <<LinkEntry("dev1", "i1", 3, PathJoin(P_d, N_b))>>,
     <<LinkEntry("dev0", "i2", 2, PathJoin(P_d, N_b)),
       LinkEntry("dev0", "i1", 3, PathJoin(P_d, N_a))>>}

NoCheck == [fn |-> "", lp |-> 0]

InitLink ==
    /\ dirent = SrcDirents @@ TopDirents
    /\ inode = SrcInodes @@ TopInodes
    /\ links \in Registries
    /\ src_orig = P_s
    /\ dst_orig = P_d
    /\ fscreate = DefaultContext
    /\ stack = <<>>
    /\ ret = Running
    /\ faults = 0
    /\ args = [reset_selinux |-> FALSE, old_uid |-> UNSET, new_uid |-> UNSET,
               old_gid |-> UNSET, new_gid |-> UNSET]
    /\ call = [src |-> P_s, dst |-> P_d, copy_root |-> FALSE]
    /\ made = <<>>
    /\ seen = {}
    /\ skipped = {}
    /\ start = [links |-> links, children |-> {}]
    /\ calls = 1
    /\ rev = FALSE
    /\ rin \in [name : {P_sa, PathJoin(P_sk, N_b)}, dev : {"dev0", "dev1"},
                ino : {"i1", "i2"}, nlink : 0 .. MaxNlink]
    /\ rout = NoCheck
    /\ fds = {}
    /\ peak = 0
    /\ ops = <<>>
    /\ nosup = {}

\* lp = check_link (src->full_path, &sb)
CheckLink ==
    /\ rout = NoCheck
    /\ LET r == check_link(links, rin.name, rin, src_orig, dst_orig)
       IN  /\ links' = r.links
           /\ rout' = [fn |-> "check_link", lp |-> r.lp]
    /\ UNCHANGED <<dirent, inode, src_orig, dst_orig, fscreate, stack, ret,
                   faults, args, call, made, seen, skipped, start, calls, rev,
                   rin, fds, peak, ops, nosup>>

NextLink == CheckLink

SpecLink == InitLink /\ [][NextLink]_vars

\* ------------------------------------------- the copy loop of copy_file

\* The loop of copy_file (lines 760-793) call by call, for a source of up to
\* MaxLen bytes, a buffer of up to MaxBuf bytes (8192 in the code) and up to
\* MaxEintr interrupted reads.
MaxLen == 3
MaxBuf == 2
MaxEintr == 2

Bytes == {"A", "B"}

RECURSIVE SeqsUpTo(_)
SeqsUpTo(n) ==
    IF n = 0 THEN {<<>>}
    ELSE LET shorter == SeqsUpTo(n - 1)
         IN  shorter \cup {Append(s, b) : s \in shorter, b \in Bytes}

Ifd == Fd("ifd", P_sa)
Ofd == Fd("ofd", PathJoin(P_d, N_a))

\* pc: the call the loop is at; pos: the offset of ifd; cnt and buf: what
\* the last read gave; out: the content of the destination; mtime: the
\* times are set; eintr: the reads interrupted so far; val: what copy_file
\* returned and why: the call that failed.
InitStream ==
    /\ dirent = SrcDirents @@ TopDirents
    /\ inode = SrcInodes @@ TopInodes
    /\ links = <<>>
    /\ src_orig = P_s
    /\ dst_orig = P_d
    /\ fscreate = DefaultContext
    /\ stack = <<>>
    /\ ret = Running
    /\ faults = 0
    /\ args = [reset_selinux |-> FALSE, old_uid |-> UNSET, new_uid |-> UNSET,
               old_gid |-> UNSET, new_gid |-> UNSET]
    /\ call = [src |-> P_s, dst |-> P_d, copy_root |-> FALSE]
    /\ made = <<>>
    /\ seen = {}
    /\ skipped = {}
    /\ start = [links |-> <<>>, children |-> {}]
    /\ calls = 1
    /\ rev = FALSE
    /\ rin \in [data : SeqsUpTo(MaxLen), size : 1 .. MaxBuf]
    /\ rout = [pc |-> "read", pos |-> 0, buf |-> <<>>, out |-> <<>>,
               mtime |-> FALSE, eintr |-> 0, val |-> 0, why |-> ""]
    /\ fds = {Ifd, Ofd}
    /\ peak = 2
    /\ ops = <<>>
    /\ nosup = {}

StreamFrame ==
    UNCHANGED <<dirent, inode, links, src_orig, dst_orig, fscreate, stack, ret,
                faults, args, call, made, seen, skipped, start, calls, rev, rin,
                peak, ops, nosup>>

\* copy_file returns v; why: the call that made it fail.
StreamReturn(v, why) == [rout EXCEPT !.pc = "done", !.val = v, !.why = why]

\* cnt = read (ifd, buf, sizeof buf) gives cnt > 0 bytes, or 0 at the end
ReadSome ==
    /\ rout.pc = "read"
    /\ LET left == Len(rin.data) - rout.pos
       IN  IF left = 0
           THEN rout' = [rout EXCEPT !.pc = "close"]
           ELSE \E cnt \in 1 .. (IF left < rin.size THEN left ELSE rin.size) :
                    rout' = [rout EXCEPT
                                !.pc = "write",
                                !.buf = SubSeq(rin.data, rout.pos + 1,
                                               rout.pos + cnt),
                                !.pos = @ + cnt]
    /\ UNCHANGED fds
    /\ StreamFrame

\* cnt < 0 with errno == EINTR: continue
ReadEintr ==
    /\ rout.pc = "read"
    /\ rout.eintr < MaxEintr
    /\ rout' = [rout EXCEPT !.eintr = @ + 1]
    /\ UNCHANGED fds
    /\ StreamFrame

\* cnt < 0 with another errno: close (ofd), close (ifd), return -1
ReadFail ==
    /\ rout.pc = "read"
    /\ rout' = StreamReturn(-1, "read")
    /\ fds' = (fds \ {Ofd}) \ {Ifd}
    /\ StreamFrame

\* write_full (ofd, buf, cnt) writes the cnt bytes and returns 0
WriteAll ==
    /\ rout.pc = "write"
    /\ rout' = [rout EXCEPT !.pc = "read", !.out = @ \o rout.buf,
                            !.buf = <<>>]
    /\ UNCHANGED fds
    /\ StreamFrame

\* write_full that returns -1 and leaves both descriptors open.
WriteFail_leak ==
    /\ rout.pc = "write"
    /\ \E k \in 0 .. (Len(rout.buf) - 1) :
          rout' = [StreamReturn(-1, "write") EXCEPT
                      !.out = @ \o SubSeq(rout.buf, 1, k)]
    /\ UNCHANGED fds
    /\ StreamFrame

\* write_full returns -1 after it wrote k < cnt bytes: close (ofd),
\* close (ifd), return -1
WriteFail ==
    /\ rout.pc = "write"
    /\ \E k \in 0 .. (Len(rout.buf) - 1) :
          rout' = [StreamReturn(-1, "write") EXCEPT
                      !.out = @ \o SubSeq(rout.buf, 1, k)]
    /\ fds' = (fds \ {Ofd}) \ {Ifd}
    /\ StreamFrame

\* close (ifd); close (ofd) != 0 && errno != EINTR: return -1
CloseFiles ==
    /\ rout.pc = "close"
    /\ \E e \in {"ok", "EINTR", "EIO"} :
          rout' = IF e = "EIO" THEN StreamReturn(-1, "close")
                  ELSE [rout EXCEPT !.pc = "utimens"]
    /\ fds' = (fds \ {Ifd}) \ {Ofd}
    /\ StreamFrame

\* utimensat (dst->dirfd, dst->name, mt, AT_SYMLINK_NOFOLLOW), return
SetTimes ==
    /\ rout.pc = "utimens"
    /\ \/ rout' = [StreamReturn(0, "") EXCEPT !.mtime = TRUE]
       \/ rout' = StreamReturn(-1, "utimens")
    /\ UNCHANGED fds
    /\ StreamFrame

NextStream ==
    \/ ReadSome
    \/ ReadEintr
    \/ ReadFail
    \/ WriteAll
    \/ WriteFail
    \/ CloseFiles
    \/ SetTimes

SpecStream == InitStream /\ [][NextStream]_vars

\* ------------------------------------- the walk and a concurrent process

\* How the calls of the walker find their entry while another process
\* renames a directory of the source or of the destination and puts a symlink
\* in its place.  A descriptor refers to the inode of the directory it was
\* opened for; a path string is resolved again, component by component,
\* following the symlinks in it.  The walk is the one of /s into /d when
\* readdir gives k before b: inside k the symlink l and the file b (the first
\* link of its inode, registered as "/d/k/b"), then b of /s, a hardlink.

NoEntry == <<"ENOENT">>

\* The directory /x of the other process: a symlink l to /f and a file b.
OtherDirents ==
    (P_x :> P_x) @@ (PathJoin(P_x, N_l) :> PathJoin(P_x, N_l))
    @@ (PathJoin(P_x, N_b) :> PathJoin(P_x, N_b))

OtherInodes ==
    (P_x :> Node(S_IFDIR + 493, 2, 7, 7, <<>>, "t_o", <<>>, "", ""))
    @@ (PathJoin(P_x, N_l) :> Node(S_IFLNK + 511, 1, 7, 7, P_f, "t_o", <<>>,
                                   "", ""))
    @@ (PathJoin(P_x, N_b) :> Node(S_IFREG + 384, 1, 7, 7, <<>>, "t_o",
                                   <<"X">>, "", ""))

\* The path with the symlinks of all its components followed.
RECURSIVE Canon(_, _, _)
Canon(S, p, depth) ==
    LET q == IF Parent(p) = <<>> THEN p
             ELSE PathJoin(Canon(S, Parent(p), depth), BaseName(p))
    IN  IF /\ depth > 0
           /\ Exists(S, q)
           /\ S_ISLNK(S.inode[S.dirent[q]].mode)
        THEN Canon(S, S.inode[S.dirent[q]].target, depth - 1)
        ELSE q

\* The inode a call reaches by a path string (AT_FDCWD, no-follow for the
\* last component): areadlink (src->full_path), linkat (AT_FDCWD, ln_name).
ByPath(S, p) ==
    LET q == PathJoin(Canon(S, Parent(p), 2), BaseName(p))
    IN  IF Exists(S, q) THEN S.dirent[q] ELSE NoEntry

\* The path now of the directory a descriptor was opened for.
PathOfDir(S, dirino) == CHOOSE q \in DOMAIN S.dirent : S.dirent[q] = dirino

\* The inode a call reaches by (dirfd, name): fstatat, symlinkat, openat.
ByDescriptor(S, dirino, name) ==
    LET q == PathJoin(PathOfDir(S, dirino), name)
    IN  IF Exists(S, q) THEN S.dirent[q] ELSE NoEntry

\* rename (from, to) by the other process: the subtree moves.
Renamed(d, from, to) ==
    LET moved == {p \in DOMAIN d : p = from \/ strprefix(p, from \o <<"/">>)}
        kept == DOMAIN d \ moved
        NewName(p) == to \o StrFrom(p, Len(from))
    IN  [q \in kept \cup {NewName(p) : p \in moved} |->
            IF q \in kept THEN d[q] ELSE d[from \o StrFrom(q, Len(to))]]

\* The descriptors the walker holds: of /s/k and /d/k, of /s and /d.
SrcK == P_sk
DstK == PathJoin(P_d, N_k)

InitRace ==
    /\ dirent = SrcDirents @@ TopDirents @@ MergeDirents @@ OtherDirents
    /\ inode = SrcInodes @@ TopInodes @@ MergeInodes @@ OtherInodes
    /\ links = <<>>
    /\ src_orig = P_s
    /\ dst_orig = P_d
    /\ fscreate = DefaultContext
    /\ stack = <<>>
    /\ ret = Running
    /\ faults = 0
    /\ args \in ArgChoices
    /\ call = [src |-> P_s, dst |-> P_d, copy_root |-> FALSE]
    /\ made = <<>>
    /\ seen = {}
    /\ skipped = {}
    /\ start = [links |-> <<>>, children |-> {}]
    /\ calls = 1
    /\ rev = TRUE
    /\ rin = <<>>
    /\ rout = <<>>
    /\ fds = {}
    /\ peak = 0
    /\ ops = <<>>
    /\ nosup = {}

RaceFrame ==
    UNCHANGED <<src_orig, dst_orig, fscreate, stack, faults, args, call, made,
                seen, skipped, start, calls, rev, rin, rout, fds, peak, nosup>>

\* What a call is recorded with: how it addressed the entry, the inode a
\* lookup in the directory the walker opened gives, and the inode reached.
Op(name, how, want, got) ==
    [op |-> name, how |-> how, want |-> want, got |-> got]

\* The other process replaces the directory dir by a symlink to /x.
Swap(dir) ==
    /\ ret = Running
    /\ Exists(Cur, dir)
    /\ S_ISDIR(inode[dirent[dir]].mode)
    /\ dirent' = (dir :> <<"swap">> \o dir)
                 @@ Renamed(dirent, dir, dir \o <<"0">>)
    /\ inode' = (<<"swap">> \o dir :> Node(S_IFLNK + 511, 1, 7, 7, P_x, "t_o",
                                           <<>>, "", "")) @@ inode
    /\ UNCHANGED <<links, ret, ops>>
    /\ RaceFrame

\* The other process puts the directory back in the place of its symlink.
Restore(dir) ==
    /\ ret = Running
    /\ Exists(Cur, dir)
    /\ S_ISLNK(inode[dirent[dir]].mode)
    /\ dirent' = Renamed([p \in DOMAIN dirent \ {dir} |-> dirent[p]],
                         dir \o <<"0">>, dir)
    /\ UNCHANGED <<inode, links, ret, ops>>
    /\ RaceFrame

\* copy_entry for l of /s/k: fstatat (src->dirfd, src->name, ...), line 410
RaceStat ==
    /\ ret = Running /\ Len(ops) = 0
    /\ LET got == ByDescriptor(Cur, SrcK, N_l)
       IN  ops' = Append(ops, Op("fstatat", "dirfd", got, got))
    /\ UNCHANGED <<dirent, inode, links, ret>>
    /\ RaceFrame

\* copy_symlink: areadlink (src->full_path), line 573
RaceReadlink ==
    /\ ret = Running /\ Len(ops) = 1
    /\ LET got == ByPath(Cur, PathJoin(P_sk, N_l))
       IN  /\ ops' = Append(ops, Op("readlink", "path",
                                    ByDescriptor(Cur, SrcK, N_l), got))
           /\ ret' = IF got = NoEntry \/ ~S_ISLNK(inode[got].mode)
                     THEN Returned(-1) ELSE ret
    /\ UNCHANGED <<dirent, inode, links>>
    /\ RaceFrame

\* copy_symlink: symlinkat (oldlink, dst->dirfd, dst->name), line 595, with
\* the target read by areadlink
RaceSymlinkat ==
    /\ ret = Running /\ Len(ops) = 2
    /\ LET new == PathJoin(PathOfDir(Cur, DstK), N_l)
           oldlink == LinkTarget(inode[ops[2].got].target, src_orig, dst_orig)
       IN  /\ dirent' = (new :> new) @@ dirent
           /\ inode' = (new :> Node(S_IFLNK + 511, 1, 0, 0, oldlink, "now",
                                    <<>>, "", "")) @@ inode
           /\ ops' = Append(ops, Op("symlinkat", "dirfd", new, new))
    /\ UNCHANGED <<links, ret>>
    /\ RaceFrame

\* copy_entry for b of /s/k: check_link registers it, copy_file creates it
\* with openat (dst->dirfd, dst->name, O_CREAT | O_EXCL ...), line 731
RaceOpenat ==
    /\ ret = Running /\ Len(ops) = 3
    /\ LET new == PathJoin(PathOfDir(Cur, DstK), N_b)
           sb == Stat(Cur, PathJoin(PathOfDir(Cur, SrcK), N_b))
       IN  /\ links' = check_link(links, PathJoin(P_sk, N_b), sb,
                                  src_orig, dst_orig).links
           /\ dirent' = (new :> new) @@ dirent
           /\ inode' = (new :> Node(S_IFREG + MODE_0600, 1, 0, 0, <<>>, "now",
                                    sb.data, "", "")) @@ inode
           /\ ops' = Append(ops, Op("openat", "dirfd", new, new))
    /\ UNCHANGED ret
    /\ RaceFrame

\* copy_entry for b of /s: check_link finds the entry, copy_hardlink calls
\* linkat (AT_FDCWD, lp->ln_name, dst->dirfd, dst->name, 0), line 630
RaceLinkat ==
    /\ ret = Running /\ Len(ops) = 4
    /\ LET sb == Stat(Cur, PathJoin(P_s, N_b))
           lp == check_link(links, PathJoin(P_s, N_b), sb, src_orig,
                            dst_orig).lp
           got == ByPath(Cur, links[lp].ln_name)
           new == PathJoin(P_d, N_b)
       IN  /\ lp # 0
           /\ ops' = Append(ops, Op("linkat", "path", ops[4].got, got))
           /\ IF got = NoEntry \/ S_ISDIR(inode[got].mode)
              THEN /\ ret' = Returned(-1)
                   /\ UNCHANGED <<dirent, inode, links>>
              ELSE /\ ret' = Returned(0)
                   /\ dirent' = (new :> got) @@ dirent
                   /\ inode' = [inode EXCEPT ![got].nlink = @ + 1]
                   /\ links' = release_link(links, lp)
    /\ RaceFrame

NextRace ==
    \/ \E dir \in {P_sk, DstK} : Swap(dir)
    \/ \E dir \in {P_sk, DstK} : Restore(dir)
    \/ RaceStat
    \/ RaceReadlink
    \/ RaceSymlinkat
    \/ RaceOpenat
    \/ RaceLinkat

SpecRace == InitRace /\ [][NextRace]_vars

\* ------------------------------------------------------------------- claims

Done == stack = <<>> /\ ret.st = "returned"

\* The source path p lies below the source root of the current call.
InTree(p) == strprefix(p, call.src \o <<"/">>)

\* The destination path the walk of the current call gives source path p.
DstOf(p) == call.dst \o StrFrom(p, Len(call.src))

\* The names in the tree of the current call that refer to inode i.
NamesOf(i) == {p \in DOMAIN dirent : InTree(p) /\ dirent[p] = i}

\* The inodes with N >= 2 names in the tree and link count N.
FullGroups ==
    {i \in {dirent[p] : p \in {q \in DOMAIN dirent : InTree(q)}} :
        /\ inode[i].nlink >= 2
        /\ Cardinality(NamesOf(i)) = inode[i].nlink}

\* The destination of source path p was created by the current call.
MadeNow(p) == DstOf(p) \in DOMAIN made /\ made[DstOf(p)].cur

\* The call started with an empty registry and an empty destination.
CleanStart == start.links = <<>> /\ start.children = {}

\* Of the names of inode i, the first one probed is created by the
\* regular-file or special-file strategy and every other one by the hardlink
\* strategy, as a link to the destination of the first.
FirstCopiedRestLinked(i) ==
    \A p \in NamesOf(i) :
        MadeNow(p) =>
            IF made[DstOf(p)].first
            THEN made[DstOf(p)].by \in {"file", "special"}
            ELSE /\ made[DstOf(p)].by = "hardlink"
                 /\ \E q \in NamesOf(i) :
                       /\ MadeNow(q)
                       /\ made[DstOf(q)].first
                       /\ dirent[DstOf(p)] = dirent[DstOf(q)]
                       /\ dirent[DstOf(q)] = DstOf(q)

\* C1 as stated, for every inode with all of its N >= 2 links in the tree:
\* in a call that starts with an empty registry and an empty destination the
\* first link enumerated is copied by the regular-file or special-file
\* strategy and the other N-1 are hardlinks to its destination.
C1_AnyInode == CleanStart => \A i \in FullGroups : FirstCopiedRestLinked(i)

\* C1 (amended): the same for the inodes that are not symbolic links, the
\* only ones copy_entry passes to check_link.
C1_HardlinkDedup ==
    CleanStart =>
        \A i \in FullGroups : ~S_ISLNK(inode[i].mode) => FirstCopiedRestLinked(i)

\* C1 witness: a call with a clean start has returned 0 and all three links
\* of the regular file were created by it.
C1_Witness ==
    /\ Done /\ ret.val = 0 /\ CleanStart
    /\ P_sa \in FullGroups
    /\ \A p \in NamesOf(P_sa) : MadeNow(p)

\* C2: once a call has successfully processed all N entries of an inode with
\* link count N, the registry holds no entry for that inode.
C2_RegistryDrained ==
    (Done /\ ret.val = 0) =>
        \A i \in FullGroups :
            (\A p \in NamesOf(i) : MadeNow(p)) =>
                \A k \in 1 .. Len(links) : links[k].ln_ino # i

\* C3: the hardlink strategy of a call never links a destination entry to a
\* destination path that an earlier call created (the registry is empty at
\* the start of each call).
C3_NoLinkToEarlierCall ==
    \A p \in DOMAIN made :
        (made[p].cur /\ made[p].by = "hardlink") =>
            /\ dirent[p] \in DOMAIN made
            /\ made[dirent[p]].cur

\* The loop of the innermost copy_tree_impl is about to call copy_entry, for
\* the source entry NextSrc and the destination NextDst.
InLoop ==
    /\ stack # <<>>
    /\ stack[Len(stack)].err = 0
    /\ stack[Len(stack)].todo # <<>>

NextSrc == PathJoin(stack[Len(stack)].src, Head(stack[Len(stack)].todo))
NextDst == PathJoin(stack[Len(stack)].dst, Head(stack[Len(stack)].todo))

\* copy_entry has returned v to the loop that called it.
EntryReturned(v) ==
    /\ Len(stack') = Len(stack)
    /\ stack'[Len(stack)].err = v

\* The step leaves the entry p with its inode, type, mode, content, owner,
\* group and link target.
SameEntry(p) ==
    /\ p \in DOMAIN dirent'
    /\ dirent'[p] = dirent[p]
    /\ inode'[dirent[p]].mode = inode[dirent[p]].mode
    /\ inode'[dirent[p]].data = inode[dirent[p]].data
    /\ inode'[dirent[p]].uid = inode[dirent[p]].uid
    /\ inode'[dirent[p]].gid = inode[dirent[p]].gid
    /\ inode'[dirent[p]].target = inode[dirent[p]].target

C4_Step ==
    /\ \A p \in DOMAIN dirent : SameEntry(p)
    /\ (InLoop /\ NextSrc \in DOMAIN dirent /\ NextDst \in DOMAIN dirent) =>
          /\ ~S_ISDIR(inode[dirent[NextSrc]].mode) =>
                /\ dirent' = dirent /\ inode' = inode /\ links' = links
                /\ EntryReturned(0)
          /\ ( /\ S_ISDIR(inode[dirent[NextSrc]].mode)
               /\ ~S_ISDIR(inode[dirent[NextDst]].mode)
               /\ NextSrc \notin skipped' ) =>
                /\ dirent' = dirent /\ inode' = inode
                /\ Len(stack') = Len(stack)
                /\ stack'[Len(stack)].err # 0

\* C4: no step of the walk changes the type, content, mode, ownership or link
\* target of an entry that exists; copy_entry called for a non-directory
\* source whose destination exists changes nothing and returns 0; called for
\* a source it finds to be a directory whose destination exists and is no
\* directory, it changes no entry and returns an error.
C4_ExistingEntryKept == [][C4_Step]_vars

\* C4 witness: in the world where /d holds a (symlink), b (directory) and k
\* (regular file), the walk of /s into /d has passed a and b with success and
\* failed at the directory k; the three are as they were.
C4_Witness ==
    /\ call = [src |-> P_s, dst |-> P_d, copy_root |-> FALSE]
    /\ Len(stack) = 1
    /\ stack[1].err # 0
    /\ stack[1].todo = <<N_m>>
    /\ skipped = {}
    /\ PathJoin(P_d, N_k) \in DOMAIN dirent
    /\ inode[dirent[PathJoin(P_d, N_k)]] = PrePopInodes[PathJoin(P_d, N_k)]
    /\ inode[dirent[PathJoin(P_d, N_a)]] = PrePopInodes[PathJoin(P_d, N_a)]

\* The step applies no attribute operation (chown, chmod, ACL copy, xattr
\* copy, utimensat) to the entry p: its attributes and the log of the
\* operations applied to its inode are the same.
SameMeta(p) ==
    /\ p \in DOMAIN dirent'
    /\ dirent'[p] = dirent[p]
    /\ inode'[dirent[p]].uid = inode[dirent[p]].uid
    /\ inode'[dirent[p]].gid = inode[dirent[p]].gid
    /\ inode'[dirent[p]].mode = inode[dirent[p]].mode
    /\ inode'[dirent[p]].acl = inode[dirent[p]].acl
    /\ inode'[dirent[p]].xattr = inode[dirent[p]].xattr
    /\ inode'[dirent[p]].log = inode[dirent[p]].log

C5_Step ==
    /\ \A k \in 1 .. Len(stack) :
          stack[k].kind = "merge" => SameMeta(stack[k].dst)
    /\ \A k \in 1 .. Len(stack') :
          stack'[k].kind = "merge" =>
              stack'[k].dst \in DOMAIN dirent /\ SameMeta(stack'[k].dst)
    /\ ( /\ InLoop
         /\ NextSrc \in DOMAIN dirent /\ NextDst \in DOMAIN dirent
         /\ S_ISDIR(inode[dirent[NextSrc]].mode)
         /\ S_ISDIR(inode[dirent[NextDst]].mode)
         /\ faults' = faults ) =>
            /\ Len(stack') = Len(stack) + 1
            /\ stack'[Len(stack')].kind = "merge"
            /\ stack'[Len(stack')].src = NextSrc
            /\ stack'[Len(stack')].dst = NextDst
            /\ stack'[Len(stack')].todo = ReadDir(Cur, NextSrc, rev)
    /\ ( /\ stack # <<>>
         /\ stack[Len(stack)].kind = "merge"
         /\ stack[Len(stack)].err = 0
         /\ Len(stack') < Len(stack) ) =>
            \A n \in Children(Cur, stack[Len(stack)].src) :
                \/ PathJoin(stack[Len(stack)].src, n) \in skipped
                \/ PathJoin(stack[Len(stack)].dst, n) \in DOMAIN dirent

\* C5: copy_entry called for a directory whose destination exists as a
\* directory enters a walk of the two (when no call fails), that walk ends
\* without error only when every child it could probe exists in the
\* destination, and from the call to the end of the walk no chown, chmod, ACL
\* copy, xattr copy or utimensat is applied to that destination directory.
C5_MergeKeepsDirectory == [][C5_Step]_vars

\* C5 witness: the walk is inside the directory /d/k that existed before the
\* call with an owner of its own, and has created the child a in it.
C5_Witness ==
    /\ stack # <<>>
    /\ stack[Len(stack)].kind = "merge"
    /\ stack[Len(stack)].dst = PathJoin(P_d, N_k)
    /\ inode[dirent[PathJoin(P_d, N_k)]].uid = 7
    /\ inode[dirent[PathJoin(P_d, N_k)]].log = <<>>
    /\ MadeNow(PathJoin(P_sk, N_a))

C6_Step ==
    ( /\ calls' = calls + 1
      /\ call'.copy_root
      /\ \/ call'.dst \in DOMAIN dirent
         \/ call'.src \notin DOMAIN dirent
         \/ ~S_ISDIR(inode[dirent[call'.src]].mode) ) =>
        /\ dirent' = dirent /\ inode' = inode /\ links' = links
        /\ stack' = <<>>
        /\ ret'.st = "returned"
        /\ ret'.val = -1 \/ call'.src \in skipped'

RootDone == call.copy_root /\ Done /\ ret.val = 0 /\ call.src \notin skipped

\* The owner the remap gives the source owner u.
MapOwner(u, old, new) ==
    IF new # UNSET /\ (old = UNSET \/ u = old) THEN new ELSE u

\* The destination root is a directory the call created, with the mode,
\* owner, group, ACL, extended attributes and times of the source root.
RootCopied ==
    /\ call.dst \in DOMAIN dirent
    /\ MadeNow(call.src)
    /\ made[call.dst].by = "dir"
    /\ LET d == inode[dirent[call.dst]]
           s == inode[dirent[call.src]]
       IN  /\ S_ISDIR(d.mode)
           /\ Perm(d.mode) = Perm(s.mode)
           /\ d.uid = MapOwner(s.uid, args.old_uid, args.new_uid)
           /\ d.gid = MapOwner(s.gid, args.old_gid, args.new_gid)
           /\ "acl" \notin nosup => d.acl = s.acl
           /\ (~args.reset_selinux /\ "xattr" \notin nosup) =>
                 d.xattr = s.xattr
           /\ d.mt = s.mt

\* No probe failed for p or for a directory above p.
Probed(p) ==
    \A q \in skipped : p # q /\ ~strprefix(p, q \o <<"/">>)

RemapCond(u, old, new) == new # UNSET /\ (old = UNSET \/ u = old)

\* C8 as stated: the uid passed to chown equals new_uid if and only if
\* new_uid is set and (old_uid is unset or u = old_uid), and equals u
\* otherwise; the same for the gid.
C8_RemapIff ==
    rout # NoRemap =>
        /\ (rout.uid = rin.new_uid)
               <=> RemapCond(rin.st_uid, rin.old_uid, rin.new_uid)
        /\ ~RemapCond(rin.st_uid, rin.old_uid, rin.new_uid)
               => rout.uid = rin.st_uid
        /\ (rout.gid = rin.new_gid)
               <=> RemapCond(rin.st_gid, rin.old_gid, rin.new_gid)
        /\ ~RemapCond(rin.st_gid, rin.old_gid, rin.new_gid)
               => rout.gid = rin.st_gid

\* The uid the function fn gives does not depend on st_gid, old_gid and
\* new_gid, nor the gid on st_uid, old_uid and new_uid.
RemapIndependent ==
    \A x \in Owners, old \in OwnerArgs, new \in OwnerArgs :
        /\ chownat_if_needed(rin.st_uid, x, rin.old_uid, rin.new_uid,
                             old, new).uid = rout.uid
        /\ chownat_if_needed(x, rin.st_gid, old, new, rin.old_gid,
                             rin.new_gid).gid = rout.gid
        /\ fchown_if_needed(rin.st_uid, x, rin.old_uid, rin.new_uid,
                            old, new).uid = rout.uid
        /\ fchown_if_needed(x, rin.st_gid, old, new, rin.old_gid,
                            rin.new_gid).gid = rout.gid

\* C8 (amended): the uid passed to chown is new_uid if new_uid is set and
\* (old_uid is unset or u = old_uid), and u otherwise (where u = new_uid it
\* equals new_uid without the condition); the same for the gid; the uid does
\* not depend on the gid parameters nor the gid on the uid parameters.
C8_RemapLaw ==
    rout # NoRemap =>
        /\ rout.uid = IF RemapCond(rin.st_uid, rin.old_uid, rin.new_uid)
                      THEN rin.new_uid ELSE rin.st_uid
        /\ rout.gid = IF RemapCond(rin.st_gid, rin.old_gid, rin.new_gid)
                      THEN rin.new_gid ELSE rin.st_gid
        /\ RemapIndependent

\* C8 witness: fchownat is given the uid of the file, which is new_uid, for a
\* file that old_uid does not select, and the mapped gid.
C8_Witness ==
    /\ rout.fn = "fchownat"
    /\ rin.old_uid = 1000 /\ rin.st_uid = 2000 /\ rin.new_uid = 2000
    /\ rout.uid = 2000
    /\ rin.old_gid = UNSET /\ rin.st_gid = 0 /\ rin.new_gid = 1000
    /\ rout.gid = 1000

\* The target string t with its leading from replaced by to when it begins
\* with from, t itself otherwise.
Rewritten(t, from, to, new) ==
    IF Len(t) >= Len(from) /\ \A i \in 1 .. Len(from) : t[i] = from[i]
    THEN /\ Len(new) = Len(to) + Len(t) - Len(from)
         /\ \A i \in 1 .. Len(to) : new[i] = to[i]
         /\ \A i \in 1 .. (Len(t) - Len(from)) :
                new[Len(to) + i] = t[Len(from) + i]
    ELSE new = t

\* C9: a symlink the current call created has the target of its source
\* symlink with the leading source root string of the call replaced by the
\* destination root string of the call when the target begins with it, and
\* the same target otherwise, at any depth of the walk.
C9_SymlinkRewrite ==
    \A p \in DOMAIN made :
        (made[p].cur /\ made[p].by = "symlink") =>
            /\ S_ISLNK(inode[dirent[p]].mode)
            /\ Rewritten(inode[made[p].sino].target, call.src, call.dst,
                         inode[dirent[p]].target)

\* C9 witness: the walk of /s into /d has created /d/k/l, two levels below
\* the roots, with the target /d/a for the source target /s/a.
C9_Witness ==
    /\ call.src = P_s /\ call.dst = P_d
    /\ MadeNow(PathJoin(P_sk, N_l))
    /\ inode[dirent[PathJoin(P_sk, N_l)]].target = P_sa
    /\ inode[dirent[PathJoin(PathJoin(P_d, N_k), N_l)]].target
           = PathJoin(P_d, N_a)

\* A call of /s/k into /d has created /d/l with the target /s/a unchanged.
C9_Verbatim ==
    /\ call.src = P_sk /\ call.dst = P_d
    /\ MadeNow(PathJoin(P_sk, N_l))
    /\ inode[dirent[PathJoin(P_d, N_l)]].target = P_sa

\* C10: every destination entry the walk created has the file type of the
\* source entry it was created for, the entries created by the hardlink
\* strategy included.
C10_TypeFidelity ==
    \A p \in DOMAIN made :
        TypeBits(inode[dirent[p]].mode) = TypeBits(made[p].smode)

\* The same for the calls that start with an empty registry.
C10_CleanRegistry ==
    start.links = <<>> =>
        \A p \in DOMAIN made :
            made[p].cur =>
                TypeBits(inode[dirent[p]].mode) = TypeBits(made[p].smode)

\* A walk is in progress and the copy of an entry has failed in it.
Failing == \E k \in 1 .. Len(stack) : stack[k].err # 0

C11_Step ==
    /\ DOMAIN dirent \subseteq DOMAIN dirent'
    /\ \A p \in DOMAIN dirent : dirent'[p] = dirent[p]
    /\ ( /\ InLoop
         /\ faults' # faults
         /\ NextSrc \notin skipped' ) =>
            /\ Len(stack') = Len(stack)
            /\ stack'[Len(stack)].err # 0
    /\ Failing =>
          /\ stack[Len(stack)].err # 0
          /\ DOMAIN dirent' = DOMAIN dirent
          /\ links' = links
          /\ Len(stack') = Len(stack) - 1
          /\ \A k \in 1 .. Len(stack') : stack'[k].todo = stack[k].todo
          /\ IF stack' = <<>>
             THEN ret'.st = "returned" /\ ret'.val # 0
             ELSE stack'[Len(stack')].err # 0

\* C11: when a call made for the copy of a child entry fails, copy_entry
\* returns an error to the loop of the directory; from then on every step
\* leaves that walk or an enclosing one without processing a further entry,
\* each enclosing walk gets the error, and copy_tree returns a value other
\* than 0; no step ever removes or replaces an entry.
C11_FirstErrorStops == [][C11_Step]_vars

\* C11 witness: the walk of /s into the empty /d has failed in the directory
\* k after creating a and b; copy_tree returned an error, a and b are in
\* place and m, the entry after k, was not processed.
C11_Witness ==
    /\ call = [src |-> P_s, dst |-> P_d, copy_root |-> FALSE]
    /\ ret.st = "returned" /\ ret.val # 0
    /\ skipped = {}
    /\ MadeNow(P_sa)
    /\ MadeNow(PathJoin(P_s, N_b))
    /\ MadeNow(P_sk)
    /\ ~MadeNow(PathJoin(P_sk, N_l))
    /\ PathJoin(P_d, N_m) \notin DOMAIN dirent

C12_Step ==
    (InLoop /\ NextSrc \in skipped' /\ NextSrc \notin skipped) =>
        /\ dirent' = dirent /\ inode' = inode /\ links' = links
        /\ fscreate' = fscreate
        /\ EntryReturned(0)
        /\ stack'[Len(stack)].todo = Tail(stack[Len(stack)].todo)

\* C12: when the probe of a source entry fails, copy_entry creates and
\* changes nothing, leaves the registry as it is and returns 0, and the loop
\* goes on with the next entry.
C12_ProbeFailureSkips == [][C12_Step]_vars

\* C12 witness: the probe of /s/a failed, and the walk went on: it ended with
\* success, with b copied and without a.
C12_Witness ==
    /\ call = [src |-> P_s, dst |-> P_d, copy_root |-> FALSE]
    /\ Done /\ ret.val = 0
    /\ skipped = {P_sa}
    /\ PathJoin(P_d, N_a) \notin DOMAIN dirent
    /\ MadeNow(PathJoin(P_s, N_b))
    /\ MadeNow(PathJoin(P_s, N_m))

\* The destination entries the current call created with a strategy that
\* sets the times: directory, symlink, special file, regular file.
TimedNow ==
    {p \in DOMAIN made :
        made[p].cur /\ made[p].by \in {"dir", "symlink", "special", "file"}}

\* C13: when a call has ended with success, for every entry it created by
\* the directory, symlink, special-file or regular-file strategy the last
\* operation applied to the entry is utimensat, the operations before it are
\* the creation and the attribute and content copies, and the times of the
\* entry are those the probe of its source gave, for a directory too, whose
\* children were all created before.
C13_TimesLast ==
    (Done /\ ret.val = 0) =>
        \A p \in TimedNow :
            /\ dirent[p] = p
            /\ Len(inode[p].log) >= 2
            /\ inode[p].log[Len(inode[p].log)] = "utimens"
            /\ \A i \in 1 .. (Len(inode[p].log) - 1) :
                  inode[p].log[i] # "utimens"
            /\ inode[p].mt = inode[made[p].sino].mt

\* C13 witness: the walk of /s into /d ended with success and created the
\* file a with content, the directory k and, after k's times could have been
\* set, nothing else in k; k has the times of /s/k.
C13_Witness ==
    /\ Done /\ ret.val = 0
    /\ call = [src |-> P_s, dst |-> P_d, copy_root |-> FALSE]
    /\ {PathJoin(P_d, N_a), PathJoin(P_d, N_k),
        PathJoin(PathJoin(P_d, N_k), N_a),
        PathJoin(PathJoin(P_d, N_k), N_l)} \subseteq TimedNow
    /\ inode[PathJoin(P_d, N_a)].data = <<"A">>
    /\ inode[PathJoin(P_d, N_k)].mt = "t_k"

\* The descriptors of the directories of the walks in progress.
DirFds(st) ==
    UNION {{Fd("src_fd", st[k].src), Fd("dst_fd", st[k].dst)} :
              k \in 1 .. Len(st)}

C14_Step ==
    /\ peak' <= 2 * Len(stack) + 2
    /\ fds' = DirFds(stack')
    /\ Cardinality(fds') <= 2 * Len(stack')
    /\ ret'.st = "returned" => fds' = {}

\* C14: after every step the descriptors open are those of the directories
\* of the walks in progress, two for each; none is open when copy_tree has
\* returned, with success or after the failure of any call; and at no moment
\* of a step are more open than two for each walk in progress plus two.
C14_DescriptorsClosed == [][C14_Step]_vars

\* C14 witness: in a nested walk the copy of a regular file failed with both
\* files open (two descriptors above those of the two walks), and only the
\* descriptors of the directories are still open.
C14_Witness ==
    /\ Len(stack) = 2
    /\ stack[2].err # 0
    /\ peak = 6
    /\ Cardinality(fds) = 4
    /\ MadeNow(PathJoin(P_sk, N_b))
    /\ made[DstOf(PathJoin(P_sk, N_b))].by = "file"

\* C15: every call of the walker reaches the entry of its name in the
\* directory the walker opened, as a call by (directory descriptor, name)
\* does, whatever another process renames meanwhile; reading the target of a
\* symlink and creating a hardlink included.
C15_DescriptorRelative ==
    \A i \in 1 .. Len(ops) : ops[i].got = ops[i].want

\* The calls that pass (dirfd, name) are not redirected.
C15_DirfdCallsSafe ==
    \A i \in 1 .. Len(ops) :
        ops[i].how = "dirfd" => ops[i].got = ops[i].want

\* The walk created /d/b as a link to the file /x/b of the other process, and
\* a symlink with the target of the other process's symlink, /f.
C15_Redirected ==
    /\ Len(ops) = 5
    /\ ops[5].got = PathJoin(P_x, N_b)
    /\ dirent[PathJoin(P_d, N_b)] = PathJoin(P_x, N_b)

\* C16: src_orig and dst_orig are the paths of the outermost directory walk
\* of the call in progress, from its start to its return, whatever walks are
\* nested in it and however it ends; with no walk in progress both are unset.
C16_SessionRoots ==
    IF stack = <<>>
    THEN src_orig = NULL /\ dst_orig = NULL
    ELSE src_orig = stack[1].src /\ dst_orig = stack[1].dst

\* A nested walk that failed and is about to return, under roots that are
\* not its own paths.
C16_Witness ==
    /\ Len(stack) = 2
    /\ stack[2].err # 0
    /\ src_orig = stack[1].src
    /\ src_orig # stack[2].src

\* C17: reset_selinux_file_context is called when the top-level call
\* completes and not when the walk of a subdirectory returns: the return of a
\* nested walk leaves the file creation context as the last strategy set it.
C17_ResetOnlyAtTop ==
    [][(Len(stack) > 1 /\ Len(stack') < Len(stack)) => fscreate' = fscreate]_vars

\* The top-level walk goes on with the default context although the last
\* node the call created is one of a subdirectory, created with a context
\* set for it.
C17_ResetInside ==
    /\ Len(stack) = 1
    /\ stack[1].todo # <<>>
    /\ fscreate = DefaultContext
    /\ \E p \in DOMAIN made :
          /\ made[p].cur
          /\ Parent(p) # stack[1].dst
          /\ inode[dirent[p]].label # DefaultContext

\* The context set_selinux_file_context sets for the destination p of a
\* source entry of mode smode.
ContextFor(p, smode) == [path |-> p, type |-> TypeBits(smode)]

\* The destination entries the step creates.
NewlyMade == DOMAIN made' \ DOMAIN made

\* The node p was created under the context set for it in the same call of
\* the strategy: that context is the one in force after the step and the one
\* the node carries.
CreatedUnderOwnContext(p) ==
    /\ fscreate' = ContextFor(p, made'[p].smode)
    /\ inode'[dirent'[p]].label = ContextFor(p, made'[p].smode)

\* Which call of copy_entry for the next entry is set_selinux_file_context
\* (0: the entry is not handled by a strategy that calls it).
SelinuxCall ==
    LET Index(steps) == CHOOSE i \in 1 .. Len(steps) : steps[i] = "selinux"
        sb == Stat(Cur, NextSrc)
    IN  IF ~Exists(Cur, NextSrc) THEN 0
        ELSE IF S_ISDIR(sb.mode) THEN 2
        ELSE IF Exists(Cur, NextDst) \/ src_orig = NULL THEN 0
        ELSE IF S_ISLNK(sb.mode) THEN 1 + Index(SymlinkSteps)
        ELSE IF check_link(links, NextSrc, sb, src_orig, dst_orig).lp # 0
        THEN 0
        ELSE IF S_ISREG(sb.mode)
        THEN 1 + Index(FileSteps(args.reset_selinux))
        ELSE 1 + Index(SpecialSteps(args.reset_selinux))

\* copy_entry for the next entry with set_selinux_file_context failing
\* returns an error and has created and changed no node.
ContextFailureCreatesNothing ==
    (InLoop /\ SelinuxCall # 0) =>
        \E r \in {copy_entry(Cur, NextSrc, NextDst, args, src_orig, dst_orig,
                             TRUE, rev, SelinuxCall)} :
            /\ r.kind = "ret"
            /\ r.hit
            /\ r.err # 0
            /\ r.S.dirent = dirent
            /\ r.S.inode = inode

C18_Step ==
    /\ \A p \in NewlyMade :
          made'[p].by # "hardlink" => CreatedUnderOwnContext(p)
    /\ ContextFailureCreatesNothing

\* C18: every node created by the directory, symlink, special-file and
\* regular-file strategies is created after set_selinux_file_context was
\* called, in the same call of the strategy, for its destination path and
\* the type of the source; when that call fails the strategy creates nothing
\* and fails.
C18_ContextBeforeCreate == [][C18_Step]_vars

\* C18 witness: a call created a directory, a symlink, a fifo and a regular
\* file, each carrying the context of its own path and type.
C18_Witness ==
    /\ \A by \in {"dir", "symlink", "special", "file"} :
          \E p \in DOMAIN made :
              /\ made[p].cur
              /\ made[p].by = by
              /\ inode[dirent[p]].label = ContextFor(p, made[p].smode)

\* C18 as stated, the hardlink strategy included: every entry a step creates
\* is created under the context set for it in that step.
C18_AnyStrategy ==
    [][\A p \in NewlyMade : fscreate' = ContextFor(p, made'[p].smode)]_vars

\* The owner may write to and search a directory of this mode (0200, 0100).
OwnerWritable(mode) == ((Perm(mode) \div 64) % 4) = 3

\* C19: while the walk that populates a directory copy_dir created is in
\* progress, the owner may write to and search that directory, whatever the
\* mode of the source directory.
C19_WritableWhilePopulated ==
    \A k \in 1 .. Len(stack) :
        stack[k].kind = "new" =>
            OwnerWritable(inode[dirent[stack[k].dst]].mode)

\* The walk of a source directory without the owner-write bit is about to
\* create an entry in the new destination directory, which has the mode of
\* the source already.
C19_ReadOnlyWhilePopulated ==
    /\ InLoop
    /\ stack[Len(stack)].kind = "new"
    /\ ~OwnerWritable(inode[dirent[stack[Len(stack)].src]].mode)
    /\ Perm(inode[dirent[stack[Len(stack)].dst]].mode)
         = Perm(inode[dirent[stack[Len(stack)].src]].mode)
    /\ ~Exists(Cur, NextDst)

\* The next entry of the walk is probed in this step and is neither a
\* directory nor a symlink and has more than one link.
MultiLinkEntry ==
    /\ InLoop
    /\ Exists(Cur, NextSrc)
    /\ ~(NextSrc \in skipped' /\ NextSrc \notin skipped)
    /\ ~S_ISDIR(inode[dirent[NextSrc]].mode)
    /\ ~S_ISLNK(inode[dirent[NextSrc]].mode)
    /\ inode[dirent[NextSrc]].nlink > 1

\* check_link was called for the next entry before a strategy handled it:
\* the inode was found, and the entry went to the hardlink strategy, which
\* made the link and released the registry entry or failed; or it was not
\* found, and the registry has it from this step on, with the destination
\* of this entry, whatever the strategy that followed came to.
Consulted ==
    \E cl \in {check_link(links, NextSrc, Stat(Cur, NextSrc), src_orig,
                          dst_orig)} :
        IF cl.lp # 0
        THEN \/ /\ NewlyMade = {NextDst}
                /\ made'[NextDst].by = "hardlink"
                /\ links' = release_link(links, cl.lp)
             \/ /\ NewlyMade = {}
                /\ links' = links
                /\ EntryReturned(-1)
        ELSE /\ links' = cl.links
             /\ links'[1].ln_name = NextDst
             /\ NewlyMade \subseteq {NextDst}
             /\ \A p \in NewlyMade : made'[p].by \in {"special", "file"}

\* C20: check_link is called for every source entry that is neither a
\* directory nor a symlink, has more than one link and whose destination
\* does not exist, before the hardlink, special-file or regular-file
\* strategy handles it.
C20_RegistryConsulted ==
    [][(MultiLinkEntry /\ ~Exists(Cur, NextDst)) => Consulted]_vars

\* C20 witness: the registry holds the entry check_link made for a file with
\* several links although the strategy that followed failed and created
\* nothing.
C20_Witness ==
    /\ stack # <<>>
    /\ stack[Len(stack)].err # 0
    /\ links # <<>>
    /\ ~Exists(Cur, links[1].ln_name)
    /\ \A p \in DOMAIN made : ~made[p].cur

\* C20 as stated: the registry is consulted whether or not the destination
\* exists.
C20_EvenWhenDestinationExists == [][MultiLinkEntry => Consulted]_vars

\* check_link has been applied to an inode the registry did not hold.
CheckedUnknown ==
    /\ rout.fn = "check_link"
    /\ FindLink(start.links, rin, 1) = 0

\* The registry is the one before the call with one entry more, for the
\* inode, with its link count and the destination of this occurrence.
RegisteredFirst ==
    links = <<LinkEntry(rin.dev, rin.ino, rin.nlink,
                        dst_orig \o StrFrom(rin.name, Len(src_orig)))>>
            \o start.links

\* C21: check_link for an inode that is not in the registry returns NULL;
\* with a link count of 1 or 0 it leaves the registry as it is, with a link
\* count above 1 it adds one entry, for that inode, with the link count and
\* the destination of this first occurrence.
C21_UnknownInode ==
    CheckedUnknown =>
        /\ rout.lp = 0
        /\ IF rin.nlink <= 1 THEN links = start.links ELSE RegisteredFirst

\* check_link registered an inode whose link count is 0, with count 0.
C21_ZeroRegistered ==
    /\ CheckedUnknown
    /\ rin.nlink = 0
    /\ Len(links) = Len(start.links) + 1
    /\ links[1].ln_count = 0

\* For link counts from 1 on the registry is as C21 says.
C21_FromOneLink ==
    (CheckedUnknown /\ rin.nlink >= 1) =>
        /\ rout.lp = 0
        /\ IF rin.nlink = 1 THEN links = start.links ELSE RegisteredFirst

\* s is the start of t.
IsPrefix(s, t) == Len(s) <= Len(t) /\ SubSeq(t, 1, Len(s)) = s

\* The creation and the attribute changes of a node made by the directory,
\* special-file or regular-file strategy, in order, when the extended
\* attributes are copied (xa) and when they are not.
FullLog(by, xa) ==
    LET x == IF xa THEN <<"xattr">> ELSE <<>>
    IN  CASE by = "dir" ->
                <<"mkdir", "chown", "chmod", "acl">> \o x \o <<"utimens">>
          [] by = "special" ->
                <<"mknod", "chown", "chmod", "acl">> \o x \o <<"utimens">>
          [] by = "file" ->
                <<"open_dst", "chown", "chmod", "acl">> \o x
                \o <<"copy", "utimens">>

\* The calls made for the node p so far are the first ones of the strategy
\* without the copy of the extended attributes, the node has none, and
\* once the last call is made it has the ACL of its source.
WithoutXattr(p) ==
    LET n == inode[dirent[p]]
    IN  /\ IsPrefix(n.log, FullLog(made[p].by, FALSE))
        /\ n.xattr = ""
        /\ (n.log = FullLog(made[p].by, FALSE) /\ "acl" \notin nosup) =>
              n.acl = inode[made[p].sino].acl

\* The same with the copy of the extended attributes after the ACL.
WithXattr(p) ==
    LET n == inode[dirent[p]]
    IN  /\ IsPrefix(n.log, FullLog(made[p].by, TRUE))
        /\ n.log = FullLog(made[p].by, TRUE) =>
              /\ "acl" \notin nosup => n.acl = inode[made[p].sino].acl
              /\ "xattr" \notin nosup =>
                    n.xattr = inode[made[p].sino].xattr

\* C22: with reset_selinux the extended attributes of no directory, special
\* file or regular file are copied, and the owner, the mode, the ACL and the
\* times are set by the same calls in the same order as without it.
C22_XattrSkipped ==
    \A p \in DOMAIN made :
        made[p].by \in {"dir", "special", "file"} =>
            IF args.reset_selinux THEN WithoutXattr(p) ELSE WithXattr(p)

\* C22 witness: a call with reset_selinux ended with success and made a
\* directory, a fifo and a regular file whose sources carry extended
\* attributes; each went through all its calls.
C22_Witness ==
    /\ args.reset_selinux
    /\ Done /\ ret.val = 0
    /\ \A by \in {"dir", "special", "file"} :
          \E p \in DOMAIN made :
              /\ made[p].cur
              /\ made[p].by = by
              /\ inode[made[p].sino].xattr # ""
              /\ inode[dirent[p]].log = FullLog(by, FALSE)

\* The strategy copy_entry uses for the next entry when it applies the ACL
\* and the extended attributes to a node it creates ("": none of the three).
AttrStrategy ==
    IF ~(InLoop /\ Exists(Cur, NextSrc) /\ ~Exists(Cur, NextDst)) THEN ""
    ELSE LET sb == Stat(Cur, NextSrc)
         IN  IF S_ISDIR(sb.mode) THEN "dir"
             ELSE IF S_ISLNK(sb.mode) THEN ""
             ELSE IF check_link(links, NextSrc, sb, src_orig, dst_orig).lp # 0
             THEN ""
             ELSE IF S_ISREG(sb.mode) THEN "file" ELSE "special"

\* Which call of copy_entry for the next entry is the copy `name` ("acl" or
\* "xattr") of the strategy by: the probe, for a directory the context, and
\* the calls of the strategy before it.
AttrCall(by, name) ==
    LET steps == CASE by = "dir" -> <<"selinux">> \o DirSteps(args.reset_selinux)
                   [] by = "special" -> SpecialSteps(args.reset_selinux)
                   [] by = "file" -> FileSteps(args.reset_selinux)
    IN  IF \E i \in 1 .. Len(steps) : steps[i] = name
        THEN 1 + CHOOSE i \in 1 .. Len(steps) : steps[i] = name
        ELSE 0

\* copy_entry for the next entry with call f failing (0: none).
NextEntry(f) ==
    copy_entry(Cur, NextSrc, NextDst, args, src_orig, dst_orig, TRUE, rev, f)

\* The strategy went through all its calls with success: the directory is
\* entered, the other nodes have their times set.
WentThrough(r, by) ==
    IF by = "dir" THEN r.kind = "enter"
    ELSE /\ r.kind = "ret" /\ r.err = 0
         /\ LET log == r.S.inode[NextDst].log IN log[Len(log)] = "utimens"

\* On a destination that does not support the attributes the copy is made,
\* copies nothing and the strategy goes on to its end with success; with
\* any other failure of the copy the strategy fails at that call.
AttrOutcome(by, name) ==
    /\ name \in nosup =>
          \E r \in {NextEntry(0)} :
              /\ WentThrough(r, by)
              /\ \E i \in 1 .. Len(r.S.inode[NextDst].log) :
                    r.S.inode[NextDst].log[i] = name
              /\ r.S.inode[NextDst][name] = ""
    /\ \E r \in {NextEntry(AttrCall(by, name))} :
          /\ r.kind = "ret" /\ r.err # 0 /\ r.hit
          /\ \A i \in 1 .. Len(r.S.inode[NextDst].log) :
                r.S.inode[NextDst].log[i] \notin {name, "utimens", "copy"}

\* C23: when the copy of the ACL or of the extended attributes finds the
\* destination file system not to support them, the strategy takes the
\* step for done and goes on; any other failure of that copy makes the
\* strategy fail.
C23_UnsupportedIsSuccess ==
    \A by \in {"dir", "special", "file"}, name \in {"acl", "xattr"} :
        (AttrStrategy = by /\ AttrCall(by, name) # 0) => AttrOutcome(by, name)

\* C23 witness: on a destination without support for ACLs and extended
\* attributes a call ended with success and made a directory, a fifo and a
\* regular file; each went through the two copies, has neither ACL nor
\* extended attributes and has its times set.
C23_Witness ==
    /\ nosup = {"acl", "xattr"}
    /\ ~args.reset_selinux
    /\ Done /\ ret.val = 0
    /\ \A by \in {"dir", "special", "file"} :
          \E p \in DOMAIN made :
              /\ made[p].cur
              /\ made[p].by = by
              /\ inode[dirent[p]].log = FullLog(by, TRUE)
              /\ inode[dirent[p]].acl = ""
              /\ inode[dirent[p]].xattr = ""

\* C24: an entry probed as a directory goes to copy_dir and to nothing
\* else: check_link is not called for it, so the registry never holds the
\* inode of a directory.
C24_DirectoryOnlyCopyDir ==
    \A k \in 1 .. Len(links) :
        links[k].ln_ino \in DOMAIN inode =>
            ~S_ISDIR(inode[links[k].ln_ino].mode)

\* copy_dir failed for /s/k before it created /d/k; the walk has the error
\* and the registry holds the directory /s/k with the destination /d/k,
\* which does not exist.
C24_DirectoryRegistered ==
    /\ stack # <<>>
    /\ stack[Len(stack)].err # 0
    /\ links # <<>>
    /\ links[1].ln_ino = P_sk
    /\ links[1].ln_name = PathJoin(P_d, N_k)
    /\ ~Exists(Cur, PathJoin(P_d, N_k))

\* C25: whenever check_link or copy_symlink is reached, src_orig and
\* dst_orig are set: the assertions at the head of the two functions never
\* fail, whatever copy_root is and whatever the calls come to.
C25_AssertionsHold == ret.st # "aborted"

\* A copy_root call whose copy_dir failed for the root before the
\* destination root was created came to check_link with src_orig unset.
C25_AssertionFailed ==
    /\ ret.st = "aborted"
    /\ call.copy_root
    /\ src_orig = NULL /\ dst_orig = NULL
    /\ ~Exists(Cur, call.dst)
    /\ faults = 1

\* The call `name` was made for the node of log.
Called(log, name) == \E i \in 1 .. Len(log) : log[i] = name

\* The node p has the owner and the group the remap gives its source.
OwnerRemapped(p) ==
    /\ inode[dirent[p]].uid
         = MapOwner(inode[made[p].sino].uid, args.old_uid, args.new_uid)
    /\ inode[dirent[p]].gid
         = MapOwner(inode[made[p].sino].gid, args.old_gid, args.new_gid)

\* The permission bits a strategy creates its node with.
CreationPerm(by) ==
    CASE by = "dir" -> MODE_0700 [] by = "file" -> MODE_0600 [] OTHER -> 0

\* C26: a node made by the directory, special-file or regular-file strategy
\* has the mode of its creation and no content until its owner is set; once
\* the mode of the source is applied or content is written, the owner and
\* the group are the remapped ones, at every point of a walk.
C26_OwnerBeforeMode ==
    \A p \in DOMAIN made :
        made[p].by \in {"dir", "special", "file"} =>
            LET n == inode[dirent[p]]
            IN  /\ ~Called(n.log, "chown") =>
                      /\ ~Called(n.log, "chmod")
                      /\ ~Called(n.log, "copy")
                      /\ Perm(n.mode) = CreationPerm(made[p].by)
                      /\ n.data = <<>>
                /\ (Called(n.log, "chmod") \/ Called(n.log, "copy")) =>
                      /\ Called(n.log, "chown")
                      /\ OwnerRemapped(p)

\* C26 witness: the copy of the set-uid file /s/a, owned by 1000, stopped
\* after fchown: /d/a has the new owner 2000, mode 0600 and no content.
C26_Witness ==
    /\ PathJoin(P_d, N_a) \in DOMAIN made
    /\ made[PathJoin(P_d, N_a)].by = "file"
    /\ inode[PathJoin(P_d, N_a)].log = <<"open_dst", "chown">>
    /\ inode[PathJoin(P_d, N_a)].uid = 2000
    /\ Perm(inode[PathJoin(P_d, N_a)].mode) = MODE_0600
    /\ inode[PathJoin(P_d, N_a)].data = <<>>

\* The call a strategy creates its node with.
CreationCall(by) ==
    CASE by = "dir" -> "mkdir" [] by = "file" -> "open_dst"
      [] by = "special" -> "mknod"

\* openat (..., O_CREAT | O_EXCL ...) for a destination that exists fails
\* and changes nothing: tried on the next entry of the walk.
ExclusiveCreate ==
    (InLoop /\ Exists(Cur, NextSrc) /\ Exists(Cur, NextDst)) =>
        \E r \in {Step(Cur, "open_dst",
                       [src |-> NextSrc, dst |-> NextDst, by |-> "file",
                        st |-> Stat(Cur, NextSrc), first |-> TRUE])} :
            /\ r.err # 0
            /\ r.S.dirent = dirent
            /\ r.S.inode = inode
            /\ r.S.fds = fds

\* C27: the first call for a node is its creation, with the type of the
\* source and permission bits that give nothing to group and others: 0700
\* for a directory, 0600 for a regular file, created exclusively, none for a
\* special file; the node has the permission bits of the source only once
\* the mode change was made.
C27_CreationMode ==
    /\ \A p \in DOMAIN made :
          made[p].by \in {"dir", "special", "file"} =>
              LET n == inode[dirent[p]]
              IN  /\ n.log[1] = CreationCall(made[p].by)
                  /\ TypeBits(n.mode) = TypeBits(made[p].smode)
                  /\ CreationPerm(made[p].by) % 64 = 0
                  /\ Perm(n.mode) = IF Called(n.log, "chmod")
                                    THEN Perm(made[p].smode)
                                    ELSE CreationPerm(made[p].by)
    /\ ExclusiveCreate

\* C27 witness: copy_special for the fifo /s/k/a (mode 0644) stopped after
\* mknodat: the new fifo has no permission bits.
C27_Witness ==
    \E p \in DOMAIN made :
        /\ made[p].by = "special"
        /\ Perm(made[p].smode) = 420
        /\ inode[dirent[p]].log = <<"mknod">>
        /\ inode[dirent[p]].mode = S_IFIFO

\* C28: while copy_file reads and writes, interrupted reads or not, both
\* descriptors are open and the destination holds a start of the source's
\* bytes; a read that fails otherwise or a write that fails makes it return
\* -1 with both descriptors closed, the part written left in the
\* destination and the times not set; an interrupted read alone never makes
\* it return; when it returns 0 the destination holds the bytes of the
\* source, in order.
C28_Streaming ==
    /\ rout.pc \in {"read", "write"} =>
          /\ fds = {Ifd, Ofd}
          /\ IsPrefix(rout.out, rin.data)
          /\ rout.out \o rout.buf = SubSeq(rin.data, 1, rout.pos)
          /\ ~rout.mtime
    /\ (rout.pc = "done" /\ rout.why \in {"read", "write"}) =>
          /\ rout.val = -1
          /\ fds = {}
          /\ IsPrefix(rout.out, rin.data)
          /\ ~rout.mtime
    /\ rout.pc = "done" => (rout.val = 0 <=> rout.why = "")
    /\ (rout.pc = "done" /\ rout.val = 0) =>
          /\ rout.out = rin.data
          /\ fds = {}
          /\ rout.mtime

\* C28 witness: after two interrupted reads and a read of two bytes the
\* write failed with one byte written: copy_file returned -1, the
\* destination holds that byte, both descriptors are closed.
C28_Witness ==
    /\ rout.pc = "done" /\ rout.why = "write"
    /\ rout.eintr = MaxEintr
    /\ Len(rout.out) = 1
    /\ Len(rin.data) = MaxLen
    /\ fds = {}

\* With interrupted reads copy_file still copies everything and returns 0.
C28_InterruptedThenComplete ==
    /\ rout.pc = "done" /\ rout.val = 0
    /\ rout.eintr = MaxEintr
    /\ rout.out = rin.data
    /\ Len(rin.data) = MaxLen

\* C29: copy_dir returns 0 or -1, also when the walk into a destination
\* directory that existed fails; so every walk has the error 0 or -1 and
\* copy_tree returns 0 or -1.
C29_ZeroOrMinusOne ==
    /\ \A k \in 1 .. Len(stack) : stack[k].err \in {0, -1}
    /\ ret.st = "returned" => ret.val \in {0, -1}

\* copy_tree of /s into /d, where /d/k existed as a directory, returned 1
\* after an entry of /s/k failed.
C29_ReturnedOne ==
    /\ Done
    /\ ret.val = 1
    /\ call = [src |-> P_s, dst |-> P_d, copy_root |-> FALSE]
    /\ PathJoin(P_d, N_k) \notin DOMAIN made

\* No two entries of the registry are for the same (device, inode).
UniqueKeys ==
    \A j, k \in 1 .. Len(links) :
        (links[j].ln_dev = links[k].ln_dev /\ links[j].ln_ino = links[k].ln_ino)
            => j = k

\* The path recorded in entry k is dst_orig followed by what follows
\* src_orig in the path of a source entry with the inode of the entry: the
\* destination of that source entry in the call in progress.
RecordedUnderRoots(k) ==
    \E p \in DOMAIN dirent :
        /\ strprefix(p, src_orig \o <<"/">>)
        /\ dirent[p] = links[k].ln_ino
        /\ links[k].ln_name = dst_orig \o StrFrom(p, Len(src_orig))

\* C30: the registry holds at most one entry per (device, inode), and
\* during a walk the path recorded in every entry is the original
\* destination root followed by the part of the source path of its inode's
\* occurrence that follows the original source root.
C30_RegistryShape ==
    /\ UniqueKeys
    /\ stack # <<>> => \A k \in 1 .. Len(links) : RecordedUnderRoots(k)

\* A walk of /s/k into /d is in progress and the registry holds, for the
\* inode of /s/k/b, the path /d/a recorded by the call before.
C30_StaleEntry ==
    /\ stack # <<>>
    /\ src_orig = P_sk /\ dst_orig = P_d
    /\ \E k \in 1 .. Len(links) :
          /\ links[k].ln_ino = P_sa
          /\ links[k].ln_name = PathJoin(P_d, N_a)

\* In a call that started with an empty registry the entries are unique
\* and recorded under the roots of the call.
C30_FromEmptyRegistry ==
    (stack # <<>> /\ start.links = <<>>) =>
        /\ UniqueKeys
        /\ \A k \in 1 .. Len(links) : RecordedUnderRoots(k)

\* The keys are unique in every state, stale entries or not.
C30_KeysUnique == UniqueKeys

\* ------------------------------------------- the walk round by round

\* One top-level call with what readdir really returns: the entries "."
\* and ".." of every directory, in any place among the others or not at
\* all, and a source tree in which the symlink k/l points to a file or to
\* the source root.  The read of copy_file may be
\* interrupted up to MaxEintr times for every file copied.
N_dot == <<".">>
N_dotdot == <<".", ".">>

WalkTargets == {P_sa, P_s}

WalkWorlds ==
    {[dirent |-> w.dirent,
      inode |-> [w.inode EXCEPT ![PathJoin(P_sk, N_l)].target = t]] :
        w \in {v \in Worlds : PathJoin(P_d, N_a) \notin DOMAIN v.dirent},
        t \in WalkTargets}

\* The calls: the skeleton into a directory, the skeleton with its root, and
\* a symlink to a directory as the source root (/h -> /d).
WalkCalls ==
    {<<P_s, P_d, FALSE>>, <<P_s, P_e, TRUE>>, <<P_h, P_e, FALSE>>}

InitWalk ==
    /\ \E w \in WalkWorlds : dirent = w.dirent /\ inode = w.inode
    /\ links = <<>>
    /\ src_orig = NULL
    /\ dst_orig = NULL
    /\ fscreate = DefaultContext
    /\ stack = <<>>
    /\ ret = Idle
    /\ faults = 0
    /\ args = [reset_selinux |-> FALSE, old_uid |-> UNSET, new_uid |-> UNSET,
               old_gid |-> UNSET, new_gid |-> UNSET]
    /\ call = [src |-> <<>>, dst |-> <<>>, copy_root |-> FALSE]
    /\ made = <<>>
    /\ seen = {}
    /\ skipped = {}
    /\ start = [links |-> <<>>, children |-> {}]
    /\ calls = 0
    /\ rev = FALSE
    /\ rin = <<>>
    /\ rout = [read |-> {}, sent |-> {}, eintr |-> 0, intr |-> FALSE]
    /\ fds = {}
    /\ peak = 0
    /\ ops = <<>>
    /\ nosup = {}

\* A loop that dispatches every name readdir returns.
SkipName_none(n) == FALSE

\* streq(ent->d_name, ".") || streq(ent->d_name, "..")  (lines 320-324)
SkipName(n) == n = N_dot \/ n = N_dotdot

\* What readdir may return next in the directory of frame top: "." or ".."
\* when it did not return it yet, or the next of the other entries.
NextNames(top) ==
    {n \in {N_dot, N_dotdot} : <<top.src, n>> \notin rout.read}
    \cup (IF top.todo # <<>> THEN {Head(top.todo)} ELSE {})

\* The entry a name of directory dir is resolved to: "." is the directory
\* itself and ".." the one above it.
EntryPath(dir, n) ==
    IF n = N_dot THEN dir
    ELSE IF n = N_dotdot THEN Parent(dir)
    ELSE PathJoin(dir, n)

\* copy_tree, once.
WalkTree(f) ==
    /\ calls = 0
    /\ \E ch \in WalkCalls : CopyTree(ch[1], ch[2], ch[3], f)

\* One round of the loop of copy_tree_impl (lines 313-351): readdir returns
\* a name, "." and ".." are skipped and copy_entry is called for another.
WalkEntry(f) ==
    /\ stack # <<>>
    /\ stack[Len(stack)].err = 0
    /\ CanInject(f)
    /\ \E n \in NextNames(stack[Len(stack)]) :
          LET top == stack[Len(stack)]
              here == <<top.src, n>>
              rest == IF n \in {N_dot, N_dotdot} THEN stack
                      ELSE [stack EXCEPT ![Len(stack)].todo = Tail(@)]
              src == EntryPath(top.src, n)
              dst == EntryPath(top.dst, n)
          IN  IF SkipName(n)
              THEN /\ f = 0
                   /\ rout' = [rout EXCEPT !.read = @ \cup {here}]
                   /\ stack' = rest
                   /\ UNCHANGED <<dirent, inode, links, src_orig, dst_orig,
                                  fscreate, ret, faults, made, seen, skipped,
                                  fds, peak>>
              ELSE /\ rout' = [rout EXCEPT !.read = @ \cup {here},
                                           !.sent = @ \cup {here},
                                           !.eintr = 0]
                   /\ \E r \in {copy_entry(Cur, src, dst, args, src_orig,
                                           dst_orig, dirent[src] \notin seen,
                                           rev, f)} :
                          /\ Injected(f, r.hit)
                          /\ AfterEntry(rest, r)
                          /\ seen' = IF f = 1 THEN seen
                                     ELSE seen \cup {dirent[src]}
                          /\ skipped' = IF f = 1 THEN skipped \cup {src}
                                        ELSE skipped
    /\ UNCHANGED <<args, call, start, calls, rev, rin, ops, nosup>>

\* The next entry is one copy_entry gives to copy_file.
FileNext ==
    /\ stack # <<>>
    /\ stack[Len(stack)].err = 0
    /\ stack[Len(stack)].todo # <<>>
    /\ LET top == stack[Len(stack)]
           src == PathJoin(top.src, Head(top.todo))
           dst == PathJoin(top.dst, Head(top.todo))
       IN  /\ Exists(Cur, src)
           /\ S_ISREG(Stat(Cur, src).mode)
           /\ ~Exists(Cur, dst)
           /\ FindLink(links, Stat(Cur, src), 1) = 0

\* The read of copy_file returns -1 with errno == EINTR and the loop goes
\* round again (lines 764-768), in the copy_file of the next round.
WalkEintr ==
    /\ FileNext
    /\ rout.eintr < MaxEintr
    /\ rout' = [rout EXCEPT !.eintr = @ + 1, !.intr = TRUE]
    /\ UNCHANGED <<dirent, inode, links, src_orig, dst_orig, fscreate, stack,
                   ret, faults, args, call, made, seen, skipped, start, calls,
                   rev, rin, fds, peak, ops, nosup>>

\* The end of a copy_tree_impl.
WalkReturn(f) == TreeReturn(f)

NextWalk ==
    \/ \E f \in FaultPoints : WalkTree(f)
    \/ \E f \in FaultPoints : WalkEntry(f)
    \/ WalkEintr
    \/ \E f \in FaultPoints : WalkReturn(f)

SpecWalk == InitWalk /\ [][NextWalk]_vars

\* The process goes on as long as it has a call to make: every call it
\* makes returns.
SpecWalkFair ==
    /\ SpecWalk
    /\ WF_vars((\E f \in FaultPoints : WalkEntry(f))
               \/ (\E f \in FaultPoints : WalkReturn(f)))

\* Every frame of the walk is for a directory of the source, not for a
\* symlink to one.
OnlyDirectoriesEntered ==
    \A i \in 1 .. Len(stack) :
        /\ stack[i].src \in DOMAIN dirent
        /\ S_ISDIR(inode[dirent[stack[i].src]].mode)

\* copy_entry was not called for "." or "..".
NoDotDispatched == \A e \in rout.sent : e[2] \notin {N_dot, N_dotdot}

\* C31: a top-level copy_tree of a finite tree into a destination outside
\* it comes to its end (it returns, or an assertion ends the process) when
\* every call returns and the reads are interrupted finitely often, with or
\* without a failure; "." and ".." are never dispatched and no symlink is
\* opened as a directory of the walk.
C31_Terminates ==
    /\ []NoDotDispatched
    /\ []OnlyDirectoriesEntered
    /\ (stack # <<>>) ~> (stack = <<>> /\ ret.st \in {"returned", "aborted"})

\* The walk was inside /s/k, readdir had returned "." and ".." of both
\* directories, the symlink k/l to the source root was copied as a symlink,
\* a read was interrupted, and the call returned 0.
C31_Witness ==
    /\ stack = <<>> /\ ret = Returned(0)
    /\ {<<P_s, N_dot>>, <<P_s, N_dotdot>>, <<P_sk, N_dot>>,
        <<P_sk, N_dotdot>>} \subseteq rout.read
    /\ <<P_sk, N_l>> \in rout.sent
    /\ rout.intr
    /\ inode[dirent[PathJoin(P_sk, N_l)]].target = P_s
    /\ PathJoin(PathJoin(P_d, N_k), N_l) \in DOMAIN dirent
    /\ S_ISLNK(inode[dirent[PathJoin(PathJoin(P_d, N_k), N_l)]].mode)

\* What chownat_if_needed and fchown_if_needed give for the arguments rin.
ByChownAt ==
    chownat_if_needed(rin.st_uid, rin.st_gid, rin.old_uid, rin.new_uid,
                      rin.old_gid, rin.new_gid)

ByFChown ==
    fchown_if_needed(rin.st_uid, rin.st_gid, rin.old_uid, rin.new_uid,
                     rin.old_gid, rin.new_gid)

\* C32: whichever of fchown_if_needed and chownat_if_needed was called, the
\* (uid, gid) it passed on is the pair the other one computes for the same
\* source owner, source group, old_uid, new_uid, old_gid and new_gid, the
\* unset sentinel among them.
C32_SameRemap ==
    rout # NoRemap =>
        /\ [uid |-> rout.uid, gid |-> rout.gid] =
              (IF rout.fn = "fchown" THEN ByChownAt ELSE ByFChown)
        /\ ByChownAt = ByFChown

\* fchown_if_needed was called with old_uid unset (every owner is mapped)
\* and new_gid unset (the group is kept) and passed on the pair that
\* chownat_if_needed computes.
C32_Witness ==
    /\ rout.fn = "fchown"
    /\ rin.old_uid = UNSET /\ rin.st_uid = 0 /\ rin.new_uid = 2000
    /\ rin.old_gid = 1000 /\ rin.st_gid = 1000 /\ rin.new_gid = UNSET
    /\ rout.uid = 2000 /\ rout.gid = 1000
    /\ ByChownAt = [uid |-> 2000, gid |-> 1000]

\* ------------------------------------------- the login loop of login.c

\* The loop of main() in login.c built without PAM (lines 808-992), what
\* follows it up to the shell, and the SIGALRM handlers.  rin holds what the
\* loop is started with: the flag -f, the name on the command line, whether
\* the terminal is a console, LOGIN_RETRIES, PREVENT_NO_AUTH and whether
\* LOGIN_TIMEOUT is positive.  The subsystem root (goto top) is left out.
MaxRetries == 2
MaxRounds == 3

\* unsigned int retries: the values are taken modulo UintWrap.

NoName == "NULL"
EmptyName == ""

\* The accounts: /etc/passwd gives the uid and pw_passwd, /etc/shadow
\* sp_pwdp.  <<"H">> is the hash of the account's password.
SHADOW_PASSWD_STRING == <<"x">>
PasswdFile ==
    [root |-> [pw_uid |-> 0, pw_passwd |-> SHADOW_PASSWD_STRING],
     user |-> [pw_uid |-> 1000, pw_passwd |-> <<"H">>],
     lock |-> [pw_uid |-> 1000, pw_passwd |-> <<"!", "H">>],
     slock |-> [pw_uid |-> 1000, pw_passwd |-> SHADOW_PASSWD_STRING],
     nopw |-> [pw_uid |-> 1000, pw_passwd |-> <<>>],
     rnopw |-> [pw_uid |-> 0, pw_passwd |-> <<>>],
     snopw |-> [pw_uid |-> 1000, pw_passwd |-> SHADOW_PASSWD_STRING]]

ShadowFile ==
    [root |-> <<"H">>, slock |-> <<"*">>, snopw |-> <<>>]

\* The names that may be given: the accounts and one that does not exist.
LoginNames == DOMAIN PasswdFile \cup {"ghost"}

\* pw_auth (cipher, user): no prompt and 0 for an empty ciphertext (lines
\* 67-78 of pwauth.c); otherwise one prompt, and 0 when the encrypted input
\* equals the ciphertext: typed says that the right password was typed, and
\* only a hash is the encryption of something.
pw_auth(cipher, typed) ==
    IF cipher = <<>> THEN [prompts |-> 0, retval |-> 0]
    ELSE [prompts |-> 1,
          retval |-> IF typed /\ cipher = <<"H">> THEN 0 ELSE -1]

\* The test of lines 862-865 on pw_passwd.
LockedPasswd(user_passwd) ==
    strprefix(user_passwd, <<"!">>) \/ strprefix(user_passwd, <<"*">>)

\* The test of lines 867-879: PREVENT_NO_AUTH for an empty pw_passwd.
NoAuthPrevented(user_passwd, pw_uid, prevent_no_auth) ==
    /\ user_passwd = <<>>
    /\ \/ prevent_no_auth = "yes"
       \/ pw_uid = 0 /\ prevent_no_auth = "superuser"

\* A login that lets root in on every terminal.
IllegalRoot_never(failed, found, pw_uid, is_console) == FALSE

\* The test of lines 919-925.
IllegalRoot(failed, found, pw_uid, is_console) ==
    ~failed /\ found /\ pw_uid = 0 /\ ~is_console

\* A loop without the prompt of lines 965-967.
DenialPrompt_none(user_passwd) == [prompts |-> 0, retval |-> 0]

\* Lines 965-967: pw_auth ("!", username) for a passwordless account.
DenialPrompt(user_passwd) ==
    IF user_passwd = <<>> THEN pw_auth(<<"!">>, TRUE)
    ELSE [prompts |-> 0, retval |-> 0]

\* One round of the loop for the state st: name is what login_prompt reads
\* when a name is asked for, typed whether the right password is typed,
\* access what login_access returns and limit whether FAILLOG_ENAB is set
\* and failcheck returns false.
LoginRound(st, in, name, typed, access, limit) ==
    LET ask == st.username = NoName
        preauth0 == IF ask THEN FALSE ELSE st.preauth_flag
        username == IF ask THEN name ELSE st.username
        found == username \in DOMAIN PasswdFile
        pw_uid == IF found THEN PasswdFile[username].pw_uid ELSE 0
        preauth_flag == IF found THEN preauth0 ELSE FALSE
        passwd1 == IF found THEN PasswdFile[username].pw_passwd ELSE <<"!">>
        failed1 == \/ ~found
                   \/ LockedPasswd(passwd1)
                   \/ NoAuthPrevented(passwd1, pw_uid, in.prevent_no_auth)
        user_passwd == IF passwd1 = SHADOW_PASSWD_STRING
                          /\ username \in DOMAIN ShadowFile
                       THEN ShadowFile[username] ELSE passwd1
        auth == IF preauth_flag THEN [prompts |-> 0, retval |-> 0]
                ELSE pw_auth(user_passwd, typed)
        failed2 == failed1 \/ auth.retval # 0
        failed3 == failed2 \/ IllegalRoot(failed2, found, pw_uid, in.is_console)
        failed4 == failed3 \/ ~access
        failed == failed4 \/ (found /\ limit)
        retries == (st.retries + UintWrap - 1) % UintWrap
        deny == DenialPrompt(user_passwd)
        last == [name |-> username, preauth |-> preauth_flag,
                 failed |-> failed,
                 prompts |-> auth.prompts + (IF failed THEN deny.prompts ELSE 0),
                 denied |-> failed /\ deny.prompts > 0,
                 denial |-> IF failed THEN deny.retval ELSE 0]
    IN  IF ask /\ name = EmptyName
        THEN [st EXCEPT !.preauth_flag = FALSE, !.rounds = @ + 1,
                        !.last = [last EXCEPT !.name = EmptyName,
                                              !.failed = FALSE,
                                              !.prompts = 0,
                                              !.denied = FALSE,
                                              !.denial = 0]]
        ELSE IF ~failed
        THEN [st EXCEPT !.pc = "authenticated", !.username = username,
                        !.preauth_flag = preauth_flag, !.rounds = @ + 1,
                        !.last = last]
        ELSE [st EXCEPT !.pc = IF in.fflg \/ retries <= 0 THEN "exit"
                               ELSE "loop",
                        !.status = IF in.fflg \/ retries <= 0 THEN 1 ELSE @,
                        !.username = NoName,
                        !.preauth_flag = preauth_flag,
                        !.retries = retries,
                        !.incorrect = @ + 1,
                        !.rounds = @ + 1,
                        !.last = last]

NoRound == [name |-> EmptyName, preauth |-> FALSE, failed |-> FALSE,
            prompts |-> 0, denied |-> FALSE, denial |-> 0]

InitLogin ==
    /\ dirent = SrcDirents @@ TopDirents
    /\ inode = SrcInodes @@ TopInodes
    /\ links = <<>>
    /\ src_orig = NULL
    /\ dst_orig = NULL
    /\ fscreate = DefaultContext
    /\ stack = <<>>
    /\ ret = Idle
    /\ faults = 0
    /\ args = [reset_selinux |-> FALSE, old_uid |-> UNSET, new_uid |-> UNSET,
               old_gid |-> UNSET, new_gid |-> UNSET]
    /\ call = [src |-> <<>>, dst |-> <<>>, copy_root |-> FALSE]
    /\ made = <<>>
    /\ seen = {}
    /\ skipped = {}
    /\ start = [links |-> <<>>, children |-> {}]
    /\ calls = 0
    /\ rev = FALSE
    /\ rin \in {c \in [fflg : BOOLEAN, name : LoginNames \cup {NoName},
                       is_console : BOOLEAN, retries : 0 .. MaxRetries,
                       prevent_no_auth : {"superuser", "yes", "no"},
                       timeout : BOOLEAN] :
                    c.fflg => c.name # NoName}
    /\ rout = [pc |-> "loop", username |-> rin.name, preauth_flag |-> rin.fflg,
               retries |-> rin.retries, incorrect |-> 0, rounds |-> 0,
               last |-> NoRound, status |-> 0,
               alarm |-> rin.timeout, handler |-> "alarm_handler",
               tmsg |-> FALSE]
    /\ fds = {}
    /\ peak = 0
    /\ ops = <<>>
    /\ nosup = {}

LoginFrame ==
    UNCHANGED <<dirent, inode, links, src_orig, dst_orig, fscreate, stack, ret,
                faults, args, call, made, seen, skipped, start, calls, rev, rin,
                fds, peak, ops, nosup>>

\* One round of the while (true) loop, to its break, its exit or its end.
LoginAttempt ==
    /\ rout.pc = "loop"
    /\ rout.rounds < MaxRounds
    /\ \E name \in LoginNames \cup {EmptyName}, typed \in BOOLEAN,
          access \in BOOLEAN, limit \in BOOLEAN :
          rout' = LoginRound(rout, rin, name, typed, access, limit)
    /\ LoginFrame

\* (void) alarm (0), line 997
AlarmOff ==
    /\ rout.pc = "authenticated"
    /\ rout' = [rout EXCEPT !.pc = "checked", !.alarm = FALSE]
    /\ LoginFrame

\* From the porttime check to the shell (lines 1005-1246): exit (1), or the
\* signals are set to their defaults and the shell is started.
StartShell ==
    /\ rout.pc = "checked"
    /\ \/ rout' = [rout EXCEPT !.pc = "exit", !.status = 1]
       \/ rout' = [rout EXCEPT !.pc = "shell", !.handler = "SIG_DFL"]
    /\ LoginFrame

\* SIGALRM with alarm_handler installed (lines 379-384): the message is
\* written, exit_handler installed and the alarm set to two seconds.
AlarmHandler ==
    /\ rout.pc \in {"loop", "authenticated", "checked"}
    /\ rout.alarm /\ rout.handler = "alarm_handler"
    /\ rout' = [rout EXCEPT !.tmsg = TRUE, !.handler = "exit_handler",
                            !.alarm = TRUE]
    /\ LoginFrame

\* SIGALRM with exit_handler installed (lines 374-377): _exit (0)
ExitHandler ==
    /\ rout.pc \in {"loop", "authenticated", "checked"}
    /\ rout.alarm /\ rout.handler = "exit_handler"
    /\ rout' = [rout EXCEPT !.pc = "exit", !.status = 0, !.alarm = FALSE]
    /\ LoginFrame

NextLogin ==
    \/ LoginAttempt
    \/ AlarmOff
    \/ StartShell
    \/ AlarmHandler
    \/ ExitHandler

SpecLogin == InitLogin /\ [][NextLogin]_vars

\* The encrypted password of account u: sp_pwdp when pw_passwd is the
\* shadow marker and the account has a shadow entry, pw_passwd otherwise.
EncryptedPasswd(u) ==
    IF PasswdFile[u].pw_passwd = SHADOW_PASSWD_STRING /\ u \in DOMAIN ShadowFile
    THEN ShadowFile[u] ELSE PasswdFile[u].pw_passwd

AccountLocked(u) ==
    /\ u \in DOMAIN PasswdFile
    /\ Len(EncryptedPasswd(u)) > 0
    /\ EncryptedPasswd(u)[1] \in {"!", "*"}

\* The loop was left by its break.
Authenticated == rout.pc \in {"authenticated", "checked", "shell"}

\* C33: a user whose encrypted password (pw_passwd, or sp_pwdp behind the
\* shadow marker) begins with '!' or '*' never leaves the loop as
\* authenticated, with or without -f.
C33_LockedNeverAuthenticated ==
    Authenticated => ~AccountLocked(rout.username)

\* login -f slock: the account whose sp_pwdp is "*" left the loop as
\* authenticated, without a password prompt.
C33_ShadowLockedPreauth ==
    /\ rout.pc = "authenticated"
    /\ rin.fflg /\ rin.name = "slock"
    /\ rout.username = "slock"
    /\ AccountLocked("slock")
    /\ rout.last.preauth /\ rout.last.prompts = 0

\* The lock is effective where the code tests it: an account whose
\* pw_passwd begins with '!' or '*' is never authenticated, and without a
\* pre-authentication no locked account is.
C33_LockedInPasswd ==
    Authenticated =>
        /\ ~LockedPasswd(PasswdFile[rout.username].pw_passwd)
        /\ ~rout.last.preauth => ~AccountLocked(rout.username)

\* C34: for every LOGIN_RETRIES value r, 0 included, login has printed
\* "Login incorrect" at most max(1, r) times: the decrement of retries
\* never wraps to a value that permits further attempts.
C34_RetriesBound ==
    rout.incorrect <= (IF rin.retries > 1 THEN rin.retries ELSE 1)

\* LOGIN_RETRIES 0: after two failed attempts the counter holds
\* UINT_MAX - 1 and login asks for the next name.
C34_Wrapped ==
    /\ rin.retries = 0 /\ ~rin.fflg
    /\ rout.incorrect = 2
    /\ rout.retries = UintWrap - 2
    /\ rout.pc = "loop"

\* For LOGIN_RETRIES r >= 1 the counter does not wrap: login exits with the
\* r-th failed attempt, and with the first one under -f.
C34_PositiveRetries ==
    /\ rin.retries >= 1 =>
          /\ rout.incorrect <= rin.retries
          /\ rout.retries = rin.retries - rout.incorrect
          /\ rout.pc = "loop" => rout.incorrect < rin.retries
    /\ rin.fflg => rout.incorrect <= 1

\* The step is a round of the loop for a name that was given.
RoundFor(u) ==
    /\ rout'.rounds = rout.rounds + 1
    /\ rout'.last.name = u

SuperUsers == {u \in DOMAIN PasswdFile : PasswdFile[u].pw_uid = 0}

C35_Step ==
    \A u \in SuperUsers :
        (RoundFor(u) /\ ~rin.is_console) =>
            /\ rout'.pc # "authenticated"
            /\ rout'.last.failed
            /\ rout'.incorrect = rout.incorrect + 1

\* C35: a round of the loop for a user with uid 0 on a terminal that is no
\* console does not leave the loop as authenticated, whether the password
\* matched or the user was pre-authenticated; it ends as a failed attempt.
C35_RootOffConsole == [][C35_Step]_vars

\* login -f root on a terminal that is no console: the round was taken
\* without a password prompt, counted as failed, and login exited.
C35_Witness ==
    /\ rin.fflg /\ rin.name = "root" /\ ~rin.is_console
    /\ rout.last.name = "root" /\ rout.last.preauth
    /\ rout.last.failed /\ rout.last.prompts = 0
    /\ rout.incorrect = 1
    /\ rout.pc = "exit" /\ rout.status = 1

\* The encrypted password of the name u, none for a name without account.
EncryptedPasswd_or_none(u) ==
    IF u \in DOMAIN PasswdFile THEN EncryptedPasswd(u) ELSE <<"!">>

\* The step is a round that ended as a failed attempt: "Login incorrect"
\* was printed.
FailedAttempt == rout'.incorrect = rout.incorrect + 1

C36_Step ==
    (FailedAttempt /\ ~rin.fflg) =>
        /\ rout'.last.name # EmptyName
        /\ rout'.last.prompts = 1
        /\ EncryptedPasswd_or_none(rout'.last.name) = <<>> =>
              (rout'.last.denied /\ rout'.last.denial # 0)

\* C36: without -f every round that ends as a failed attempt has issued a
\* password prompt (exactly one) before "Login incorrect", for a name that
\* does not exist, a locked account and a denied passwordless account
\* alike, and the prompt of the denied passwordless account fails.
C36_PromptBeforeIncorrect == [][C36_Step]_vars

\* The passwordless root account was denied (PREVENT_NO_AUTH superuser)
\* after the prompt that always fails, and a name that does not exist is
\* failed with a prompt as well.
C36_Witness ==
    /\ ~rin.fflg /\ rin.prevent_no_auth = "superuser"
    /\ rout.last.name = "rnopw"
    /\ rout.last.failed /\ rout.last.denied /\ rout.last.denial = -1
    /\ rout.last.prompts = 1
    /\ rout.incorrect >= 1

\* C37: once the alarm handler has written "Login timed out", login does
\* not go on to start a shell, wherever SIGALRM arrives.
C37_NoShellAfterTimeout == ~(rout.tmsg /\ rout.pc = "shell")

\* SIGALRM arrived after the loop was left and before alarm (0): the
\* message was written, alarm (0) took back the two seconds the handler had
\* set, and the shell was started.
C37_ShellAfterTimeout ==
    /\ rout.tmsg
    /\ rout.pc = "shell"
    /\ rout.handler = "SIG_DFL"
    /\ ~rout.alarm

\* The alarm is still running only while the loop has not been left or
\* alarm (0) has not been reached, and the handler's exit is _exit (0).
C37_AlarmOffAfterLoop ==
    /\ rout.pc \in {"checked", "shell"} => ~rout.alarm
    /\ (rout.pc = "exit" /\ rout.status = 0) => rout.tmsg

\* ------------------------------------------------------------- stpecpy

\* Chains of up to MaxChain calls p = stpecpy (p, end, src) on a buffer of
\* 1 to MaxSize bytes, for every src of up to MaxLen bytes.  The memory is
\* the buffer followed by MaxLen + 1 bytes that are not part of it; a
\* pointer is its offset from the start of the buffer, end is the size of
\* the buffer, and the chain starts at the start of the buffer or with NULL.
MaxSize == 3
MaxChain == 2

NullPtr == -1
NUL == "0"

MemOffsets == 0 .. (MaxSize + MaxLen)

\* strlen for the bound of strnlen: the length of src whatever the bound.
strnlen_unbounded(src, n) == Len(src)

\* strnlen (src, n)
strnlen(src, n) == IF Len(src) < n THEN Len(src) ELSE n

\* mempcpy (dst, src, n): the memory afterwards; it returns dst + n
mempcpy(mem, dst, src, n) ==
    [i \in DOMAIN mem |->
        IF i >= dst /\ i < dst + n THEN src[i - dst + 1] ELSE mem[i]]

\* stpcpy (dst, ""): the memory afterwards; it returns dst
stpcpy_empty(mem, dst) == [mem EXCEPT ![dst] = NUL]

\* stpecpy (dst, end, src), lines 66-85: the memory afterwards and the
\* pointer returned.
stpecpy(mem, dst, end, src) ==
    IF dst = end THEN [mem |-> mem, ret |-> end]
    ELSE IF dst = NullPtr THEN [mem |-> mem, ret |-> NullPtr]
    ELSE LET dsize == end - dst
             slen == strnlen(src, dsize)
             trunc == IF slen = dsize THEN 1 ELSE 0
             dlen == slen - trunc
         IN  [mem |-> stpcpy_empty(mempcpy(mem, dst, src, dlen), dst + dlen),
              ret |-> dst + dlen + trunc]

NoCopy == [dst |-> 0, src |-> <<>>, mem |-> <<>>]

InitCopy ==
    /\ dirent = SrcDirents @@ TopDirents
    /\ inode = SrcInodes @@ TopInodes
    /\ links = <<>>
    /\ src_orig = NULL
    /\ dst_orig = NULL
    /\ fscreate = DefaultContext
    /\ stack = <<>>
    /\ ret = Idle
    /\ faults = 0
    /\ args = [reset_selinux |-> FALSE, old_uid |-> UNSET, new_uid |-> UNSET,
               old_gid |-> UNSET, new_gid |-> UNSET]
    /\ call = [src |-> <<>>, dst |-> <<>>, copy_root |-> FALSE]
    /\ made = <<>>
    /\ seen = {}
    /\ skipped = {}
    /\ start = [links |-> <<>>, children |-> {}]
    /\ calls = 0
    /\ rev = FALSE
    /\ rin \in [end : 1 .. MaxSize, first : {0, NullPtr}]
    /\ rout = [mem |-> [i \in MemOffsets |-> "?"], p |-> rin.first, n |-> 0,
               last |-> NoCopy]
    /\ fds = {}
    /\ peak = 0
    /\ ops = <<>>
    /\ nosup = {}

\* p = stpecpy (p, end, src)
Stpecpy ==
    /\ rout.n < MaxChain
    /\ \E src \in SeqsUpTo(MaxLen) :
          \E r \in {stpecpy(rout.mem, rout.p, rin.end, src)} :
              rout' = [mem |-> r.mem, p |-> r.ret, n |-> rout.n + 1,
                       last |-> [dst |-> rout.p, src |-> src,
                                 mem |-> rout.mem]]
    /\ UNCHANGED <<dirent, inode, links, src_orig, dst_orig, fscreate, stack,
                   ret, faults, args, call, made, seen, skipped, start, calls,
                   rev, rin, fds, peak, ops, nosup>>

NextCopy == Stpecpy

SpecCopy == InitCopy /\ [][NextCopy]_vars

\* The memory is as before the last call except at the offsets from..to - 1.
SameOutside(from, to) ==
    \A i \in MemOffsets : (i < from \/ i >= to) => rout.mem[i] = rout.last.mem[i]

\* The bytes at the offsets from .. from + Len(s) - 1 are those of s.
Holds(from, s) == \A k \in 1 .. Len(s) : rout.mem[from + k - 1] = s[k]

\* C38: with dst non-NULL and dst < end, stpecpy copies all of src with its
\* NUL and returns dst + strlen (src) when strlen (src) < end - dst, and
\* writes the first end - dst - 1 bytes and a NUL and returns end otherwise,
\* without a write at or past end; with dst == end it writes nothing and
\* returns end, and with dst == NULL it writes nothing and returns NULL.
C38_Stpecpy ==
    rout.n > 0 =>
        LET dst == rout.last.dst
            src == rout.last.src
            end == rin.end
        IN  /\ dst = NullPtr => (rout.p = NullPtr /\ rout.mem = rout.last.mem)
            /\ dst = end => (rout.p = end /\ rout.mem = rout.last.mem)
            /\ (dst # NullPtr /\ dst < end /\ Len(src) < end - dst) =>
                  /\ rout.p = dst + Len(src)
                  /\ Holds(dst, src)
                  /\ rout.mem[dst + Len(src)] = NUL
                  /\ SameOutside(dst, dst + Len(src) + 1)
            /\ (dst # NullPtr /\ dst < end /\ Len(src) >= end - dst) =>
                  /\ rout.p = end
                  /\ Holds(dst, SubSeq(src, 1, end - dst - 1))
                  /\ rout.mem[end - 1] = NUL
                  /\ SameOutside(dst, end)
            /\ \A i \in MemOffsets : i >= end => rout.mem[i] = rout.last.mem[i]

\* A chain on a buffer of three bytes: the first call truncated "ABA" to
\* "AB" and returned end, the second was given end, returned end and left
\* the buffer as it was.
C38_Witness ==
    /\ rin.end = 3 /\ rout.n = 2
    /\ rout.last.dst = 3 /\ rout.last.src # <<>>
    /\ rout.p = 3
    /\ rout.mem[0] = "A" /\ rout.mem[1] = "B" /\ rout.mem[2] = NUL
    /\ rout.mem = rout.last.mem

\* ------------------------------------------------- copy_hardlink alone

\* Up to MaxLinks calls of copy_hardlink in the walk of /s into /d, for a
\* registry of one to three entries with counts 0 (an entry of an inode
\* with st_nlink 0), 1 and 2.  /d/a and /d/b were copied before; the path
\* of the third entry, /d/l, does not exist.
MaxLinks == 2

HardlinkDirents ==
    (PathJoin(P_d, N_a) :> PathJoin(P_d, N_a))
    @@ (PathJoin(P_d, N_b) :> PathJoin(P_d, N_b))

HardlinkInodes ==
    (PathJoin(P_d, N_a) :> Node(S_IFREG + 420, 1, 0, 0, <<>>, "t_a", <<"A">>, "", ""))
    @@ (PathJoin(P_d, N_b) :> Node(S_IFREG + 420, 1, 0, 0, <<>>, "t_b", <<"B">>, "", ""))

HardlinkRegistries ==
    LET E1(c) == LinkEntry("dev0", "i1", c, PathJoin(P_d, N_a))
        E2(c) == LinkEntry("dev0", "i2", c, PathJoin(P_d, N_b))
        E3(c) == LinkEntry("dev0", "i3", c, PathJoin(P_d, N_l))
    IN  {<<E1(a)>> : a \in 0 .. 2}
        \cup {<<E1(a), E2(b)>> : a \in 0 .. 2, b \in 0 .. 2}
        \cup {<<E1(a), E2(b), E3(c)>> : a \in 0 .. 2, b \in 0 .. 2, c \in 0 .. 2}

NoLink == [n |-> 0, lp |-> 0, err |-> 0, before |-> <<>>, dst |-> <<>>]

InitHardlink ==
    /\ dirent = SrcDirents @@ TopDirents @@ HardlinkDirents
    /\ inode = SrcInodes @@ TopInodes @@ HardlinkInodes
    /\ links \in HardlinkRegistries
    /\ src_orig = P_s
    /\ dst_orig = P_d
    /\ fscreate = DefaultContext
    /\ stack = <<>>
    /\ ret = Running
    /\ faults = 0
    /\ args = [reset_selinux |-> FALSE, old_uid |-> UNSET, new_uid |-> UNSET,
               old_gid |-> UNSET, new_gid |-> UNSET]
    /\ call = [src |-> P_s, dst |-> P_d, copy_root |-> FALSE]
    /\ made = <<>>
    /\ seen = {}
    /\ skipped = {}
    /\ start = [links |-> links, children |-> {}]
    /\ calls = 1
    /\ rev = FALSE
    /\ rin = <<>>
    /\ rout = NoLink
    /\ fds = {}
    /\ peak = 0
    /\ ops = <<>>
    /\ nosup = {}

\* err = copy_hardlink (dst, reset_selinux, lp) for the entry lp that
\* check_link returned and a destination name that is free (m, k) or taken
\* (a); f = 1 makes linkat fail.
CopyHardlink ==
    /\ rout.n < MaxLinks
    /\ \E lp \in 1 .. Len(links), dn \in {N_m, N_k, N_a}, f \in {0, 1} :
          LET c == [dst |-> PathJoin(P_d, dn),
                    st |-> [ino |-> links[lp].ln_ino, mode |-> S_IFREG + 420],
                    first |-> FALSE]
          IN  \E r \in {copy_hardlink(Cur, c, lp, f)} :
                  /\ Put(r.S)
                  /\ rout' = [n |-> rout.n + 1, lp |-> lp, err |-> r.err,
                              before |-> links, dst |-> c.dst]
    /\ UNCHANGED <<src_orig, dst_orig, stack, ret, faults, args, call, seen,
                   skipped, start, calls, rev, rin, ops, nosup>>

NextHardlink == CopyHardlink

SpecHardlink == InitHardlink /\ [][NextHardlink]_vars

\* The count of entry e less one, in the unsigned type of ln_count.
CountLessOne(e) == IF e.ln_count = 0 THEN UintWrap - 1 ELSE e.ln_count - 1

\* C39: a successful copy_hardlink takes one from the count of the entry
\* it resolved and removes that entry, wherever it is in the list, when the
\* count has reached zero; every other entry stays, at its place among the
\* others and with its key, count and path; a copy_hardlink whose linkat
\* fails returns -1 and leaves the registry as it was.
C39_ReleaseOnly ==
    rout.n > 0 =>
        LET b == rout.before
            lp == rout.lp
        IN  /\ rout.err \in {0, -1}
            /\ rout.err = -1 => links = b
            /\ (rout.err = 0 /\ CountLessOne(b[lp]) = 0) =>
                  /\ Len(links) = Len(b) - 1
                  /\ \A i \in 1 .. Len(links) :
                        links[i] = IF i < lp THEN b[i] ELSE b[i + 1]
            /\ (rout.err = 0 /\ CountLessOne(b[lp]) # 0) =>
                  /\ Len(links) = Len(b)
                  /\ links[lp] = [b[lp] EXCEPT !.ln_count = CountLessOne(b[lp])]
                  /\ \A i \in 1 .. Len(b) : i # lp => links[i] = b[i]

\* The second of three entries had one link left; the link was made and
\* the entry removed, the first and the third are as they were.
C39_Witness ==
    /\ rout.n > 0 /\ rout.err = 0 /\ rout.lp = 2
    /\ Len(rout.before) = 3
    /\ rout.before[2].ln_count = 1
    /\ links = <<rout.before[1], rout.before[3]>>
    /\ rout.dst \in DOMAIN dirent
    /\ dirent[rout.dst] = dirent[rout.before[2].ln_name]

====
